---- MODULE Spec2Model ----
(***************************************************************************)
(* ShieldAI backend: the case matcher (knowledge_base.py), the gap         *)
(* analyzer (gap_analyzer.py) and the evidence extractor (crawler.py).     *)
(*                                                                         *)
(* Strings are TLC strings; Python's substring test, lower(), split() and  *)
(* join() are written out over them.  Characters outside ASCII in the      *)
(* source's literals are transliterated (the euro sign is "EUR", dashes    *)
(* are "-", the section sign is "s.", the middle dot is "|").              *)
(***************************************************************************)
EXTENDS Integers, Sequences, FiniteSets, TLC

(***************************************************************************)
(* Bounds of the explored inputs.                                          *)
(***************************************************************************)
MaxTags == 3
MaxLimit == 3

(***************************************************************************)
(* Generic helpers standing for Python built-ins.                          *)
(***************************************************************************)
Range(s) == {s[i] : i \in 1..Len(s)}

Min(a, b) == IF a < b THEN a ELSE b

Max(a, b) == IF a > b THEN a ELSE b

\* Python's "k in t" on strings.
Contains(k, t) ==
  \E i \in 1..(Len(t) - Len(k) + 1) : SubSeq(t, i, i + Len(k) - 1) = k

\* Python's s[:n] on lists, for any integer n.
Slice(s, n) ==
  IF n >= 0 THEN SubSeq(s, 1, Min(n, Len(s)))
            ELSE SubSeq(s, 1, Max(0, Len(s) + n))

\* None, where the code only tests the value's truth.
None == ""

\* All sequences over S of length at most n.
SeqsUpTo(S, n) == UNION {[1..k -> S] : k \in 0..n}

(***************************************************************************)
(* knowledge_base.py: the signature catalogue, in dictionary order.        *)
(***************************************************************************)
TRACKER_SIGNATURES ==
  <<
    [sig |-> "google-analytics.com", name |-> "Google Analytics", cat |-> "analytics",
     data |-> <<"page views", "user behavior", "device info", "IP address">>],
    [sig |-> "googletagmanager.com", name |-> "Google Tag Manager", cat |-> "tag_management",
     data |-> <<"page views", "events", "user interactions">>],
    [sig |-> "googlesyndication.com", name |-> "Google Ads", cat |-> "advertising",
     data |-> <<"browsing behavior", "device ID", "ad interactions">>],
    [sig |-> "googleadservices.com", name |-> "Google Ads Conversion", cat |-> "advertising",
     data |-> <<"conversion events", "device info">>],
    [sig |-> "doubleclick.net", name |-> "DoubleClick (Google)", cat |-> "advertising",
     data |-> <<"browsing history", "ad impressions", "device fingerprint">>],
    [sig |-> "facebook.net", name |-> "Meta Pixel", cat |-> "advertising",
     data |-> <<"page views", "custom events", "device info", "hashed emails">>],
    [sig |-> "connect.facebook.net", name |-> "Facebook SDK", cat |-> "advertising",
     data |-> <<"user interactions", "device info", "browsing behavior">>],
    [sig |-> "facebook.com/tr", name |-> "Meta Tracking Pixel", cat |-> "advertising",
     data |-> <<"page views", "conversion events">>],
    [sig |-> "tiktok.com", name |-> "TikTok Pixel", cat |-> "advertising",
     data |-> <<"page views", "events", "device fingerprint">>],
    [sig |-> "analytics.tiktok.com", name |-> "TikTok Analytics", cat |-> "advertising",
     data |-> <<"page views", "events", "device fingerprint">>],
    [sig |-> "snap.licdn.com", name |-> "LinkedIn Insight Tag", cat |-> "advertising",
     data |-> <<"page views", "professional profile data">>],
    [sig |-> "ads.linkedin.com", name |-> "LinkedIn Ads", cat |-> "advertising",
     data |-> <<"conversion events", "professional data">>],
    [sig |-> "bat.bing.com", name |-> "Microsoft Ads UET", cat |-> "advertising",
     data |-> <<"search behavior", "conversion events">>],
    [sig |-> "criteo.com", name |-> "Criteo", cat |-> "advertising",
     data |-> <<"browsing behavior", "product views", "device ID">>],
    [sig |-> "criteo.net", name |-> "Criteo Network", cat |-> "advertising",
     data |-> <<"browsing behavior", "retargeting data">>],
    [sig |-> "amazon-adsystem.com", name |-> "Amazon Ads", cat |-> "advertising",
     data |-> <<"browsing behavior", "purchase intent">>],
    [sig |-> "pinterest.com/ct", name |-> "Pinterest Tag", cat |-> "advertising",
     data |-> <<"page views", "conversion events">>],
    [sig |-> "ads.twitter.com", name |-> "X/Twitter Ads", cat |-> "advertising",
     data |-> <<"page views", "conversion events">>],
    [sig |-> "t.co", name |-> "X/Twitter Click Tracking", cat |-> "advertising",
     data |-> <<"click tracking", "referral data">>],
    [sig |-> "adsrvr.org", name |-> "The Trade Desk", cat |-> "advertising",
     data |-> <<"browsing behavior", "device ID", "ad impressions">>],
    [sig |-> "taboola.com", name |-> "Taboola", cat |-> "advertising",
     data |-> <<"content interactions", "browsing behavior">>],
    [sig |-> "outbrain.com", name |-> "Outbrain", cat |-> "advertising",
     data |-> <<"content interactions", "browsing behavior">>],
    [sig |-> "adroll.com", name |-> "AdRoll", cat |-> "advertising",
     data |-> <<"browsing behavior", "retargeting data">>],
    [sig |-> "liveramp.com", name |-> "LiveRamp", cat |-> "advertising",
     data |-> <<"identity resolution", "cross-device tracking">>],
    [sig |-> "doubleverify.com", name |-> "DoubleVerify", cat |-> "advertising",
     data |-> <<"ad viewability", "brand safety metrics">>],
    [sig |-> "demdex.net", name |-> "Adobe Audience Manager", cat |-> "advertising",
     data |-> <<"audience segments", "device IDs">>],
    [sig |-> "hotjar.com", name |-> "Hotjar", cat |-> "analytics",
     data |-> <<"mouse movements", "clicks", "scrolling", "session recordings">>],
    [sig |-> "clarity.ms", name |-> "Microsoft Clarity", cat |-> "analytics",
     data |-> <<"session recordings", "heatmaps", "click patterns">>],
    [sig |-> "mixpanel.com", name |-> "Mixpanel", cat |-> "analytics",
     data |-> <<"user events", "funnels", "user properties">>],
    [sig |-> "segment.io", name |-> "Segment", cat |-> "analytics",
     data |-> <<"all event data", "user profiles", "cross-platform tracking">>],
    [sig |-> "segment.com", name |-> "Segment", cat |-> "analytics",
     data |-> <<"all event data", "user profiles", "cross-platform tracking">>],
    [sig |-> "amplitude.com", name |-> "Amplitude", cat |-> "analytics",
     data |-> <<"user events", "behavioral analytics", "user properties">>],
    [sig |-> "heap.io", name |-> "Heap Analytics", cat |-> "analytics",
     data |-> <<"auto-captured events", "user sessions">>],
    [sig |-> "fullstory.com", name |-> "FullStory", cat |-> "analytics",
     data |-> <<"session replay", "clicks", "mouse movement", "form inputs">>],
    [sig |-> "newrelic.com", name |-> "New Relic", cat |-> "analytics",
     data |-> <<"performance data", "error tracking", "user sessions">>],
    [sig |-> "sentry.io", name |-> "Sentry", cat |-> "analytics",
     data |-> <<"error reports", "stack traces", "user context">>],
    [sig |-> "plausible.io", name |-> "Plausible", cat |-> "analytics",
     data |-> <<"page views (privacy-friendly, no cookies)">>],
    [sig |-> "intercom.io", name |-> "Intercom", cat |-> "customer_data",
     data |-> <<"user identity", "chat messages", "behavioral data">>],
    [sig |-> "zendesk.com", name |-> "Zendesk", cat |-> "customer_data",
     data |-> <<"support tickets", "user identity">>],
    [sig |-> "hubspot.com", name |-> "HubSpot", cat |-> "customer_data",
     data |-> <<"form submissions", "email tracking", "CRM data">>],
    [sig |-> "hs-analytics.net", name |-> "HubSpot Analytics", cat |-> "customer_data",
     data |-> <<"page views", "form interactions", "email opens">>],
    [sig |-> "salesforce.com", name |-> "Salesforce", cat |-> "customer_data",
     data |-> <<"CRM data", "user interactions">>],
    [sig |-> "drift.com", name |-> "Drift", cat |-> "customer_data",
     data |-> <<"chat messages", "user identity", "browsing behavior">>],
    [sig |-> "platform.twitter.com", name |-> "Twitter Embed", cat |-> "social",
     data |-> <<"page views", "user preferences">>],
    [sig |-> "platform.instagram.com", name |-> "Instagram Embed", cat |-> "social",
     data |-> <<"page views">>],
    [sig |-> "apis.google.com", name |-> "Google APIs", cat |-> "social",
     data |-> <<"authentication data">>]
  >>

(***************************************************************************)
(* knowledge_base.py: the enforcement cases the module-level list holds    *)
(* when the module is loaded.                                              *)
(***************************************************************************)
CasesTable ==
  <<
    [company |-> "Meta/Facebook", fine |-> "EUR1.2B", fine_usd |-> 1300000000,
     year |-> 2023, authority |-> "Irish DPC",
     violation |-> "EU-to-US data transfers without adequate safeguards",
     tags |-> <<"cross_border", "data_transfer">>],
    [company |-> "Meta/Facebook", fine |-> "EUR390M", fine_usd |-> 425000000,
     year |-> 2023, authority |-> "Irish DPC",
     violation |-> "Lack of valid legal basis for behavioral advertising",
     tags |-> <<"advertising", "consent", "legal_basis">>],
    [company |-> "Google", fine |-> "EUR150M", fine_usd |-> 163000000,
     year |-> 2022, authority |-> "CNIL (France)",
     violation |-> "Making cookie rejection harder than acceptance",
     tags |-> <<"cookies", "consent">>],
    [company |-> "Facebook", fine |-> "EUR60M", fine_usd |-> 65000000,
     year |-> 2022, authority |-> "CNIL (France)",
     violation |-> "Cookie consent mechanism not providing equal reject option",
     tags |-> <<"cookies", "consent">>],
    [company |-> "Amazon Europe", fine |-> "EUR746M", fine_usd |-> 812000000,
     year |-> 2021, authority |-> "Luxembourg CNPD",
     violation |-> "Processing personal data for advertising without proper consent",
     tags |-> <<"advertising", "consent">>],
    [company |-> "Epic Games/Fortnite", fine |-> "$275M", fine_usd |-> 275000000,
     year |-> 2022, authority |-> "FTC",
     violation |-> "COPPA violations - collecting children's data without parental consent",
     tags |-> <<"children", "coppa", "consent">>],
    [company |-> "Sephora", fine |-> "$1.2M", fine_usd |-> 1200000,
     year |-> 2022, authority |-> "California AG",
     violation |-> "Undisclosed sale of consumer data via third-party trackers",
     tags |-> <<"advertising", "disclosure", "ccpa">>],
    [company |-> "BetterHelp", fine |-> "$7.8M", fine_usd |-> 7800000,
     year |-> 2023, authority |-> "FTC",
     violation |-> "Sharing health data with advertising platforms without disclosure",
     tags |-> <<"advertising", "disclosure", "health_data">>],
    [company |-> "Google", fine |-> "$391.5M", fine_usd |-> 391500000,
     year |-> 2022, authority |-> "40 US States",
     violation |-> "Misleading location tracking practices",
     tags |-> <<"location", "disclosure", "deceptive">>],
    [company |-> "Clearview AI", fine |-> "EUR20M", fine_usd |-> 22000000,
     year |-> 2022, authority |-> "Italian DPA",
     violation |-> "Unlawful processing of biometric/facial recognition data",
     tags |-> <<"biometric", "consent", "disclosure">>],
    [company |-> "TikTok", fine |-> "EUR345M", fine_usd |-> 345000000,
     year |-> 2023, authority |-> "Irish DPC",
     violation |-> "Children's privacy violations and transparency failures",
     tags |-> <<"children", "transparency", "consent">>],
    [company |-> "Deutsche Wohnen", fine |-> "EUR14.5M", fine_usd |-> 14500000,
     year |-> 2019, authority |-> "Berlin DPA",
     violation |-> "Failing to establish proper data retention and deletion practices",
     tags |-> <<"retention", "deletion">>],
    [company |-> "Deliveroo", fine |-> "EUR2.5M", fine_usd |-> 2500000,
     year |-> 2021, authority |-> "Italian DPA",
     violation |-> "Collecting excessive data beyond service necessity",
     tags |-> <<"minimization", "excessive_collection">>],
    [company |-> "Amazon/Alexa", fine |-> "$25M", fine_usd |-> 25000000,
     year |-> 2023, authority |-> "FTC",
     violation |-> "Retaining children's voice data and geolocation indefinitely",
     tags |-> <<"children", "retention", "location">>],
    [company |-> "H&M", fine |-> "EUR35.3M", fine_usd |-> 38000000,
     year |-> 2020, authority |-> "Hamburg DPA",
     violation |-> "Extensive surveillance of employees including health and private data",
     tags |-> <<"employee_data", "excessive_collection">>],
    [company |-> "WhatsApp", fine |-> "EUR225M", fine_usd |-> 245000000,
     year |-> 2021, authority |-> "Irish DPC",
     violation |-> "Insufficient transparency about data sharing with Meta companies",
     tags |-> <<"transparency", "disclosure", "sharing">>]
  >>

(***************************************************************************)
(* find_relevant_cases                                                     *)
(***************************************************************************)
DefaultLimit == 2

\* len(set(tags) & set(case["tags"]))
Overlap(tags, case) == Cardinality(Range(tags) \cap Range(case.tags))

\* The loop building "scored": (overlap, case) for the cases that overlap.
RECURSIVE ScoredFrom(_, _, _)
ScoredFrom(tags, table, i) ==
  IF i > Len(table) THEN << >>
  ELSE LET overlap == Overlap(tags, table[i])
           rest == ScoredFrom(tags, table, i + 1)
       IN  IF overlap > 0 THEN << <<overlap, table[i]>> >> \o rest ELSE rest

\* A sort key that forgets the overlap: largest fine first.
KeyBefore_FineOnly(a, b) == a[2].fine_usd > b[2].fine_usd

\* The sort key (-overlap, -fine_usd): a sorts strictly before b.
KeyBefore(a, b) ==
  \/ a[1] > b[1]
  \/ a[1] = b[1] /\ a[2].fine_usd > b[2].fine_usd

\* list.sort is stable: x goes before the first element it sorts before.
RECURSIVE InsertSorted(_, _)
InsertSorted(sorted, x) ==
  IF sorted = << >> THEN <<x>>
  ELSE IF KeyBefore(x, Head(sorted)) THEN <<x>> \o sorted
  ELSE <<Head(sorted)>> \o InsertSorted(Tail(sorted), x)

RECURSIVE SortScored(_)
SortScored(scored) ==
  IF scored = << >> THEN << >>
  ELSE InsertSorted(SortScored(SubSeq(scored, 1, Len(scored) - 1)),
                    scored[Len(scored)])

find_relevant_cases(tags, limit, table) ==
  LET scored == SortScored(ScoredFrom(tags, table, 1))
      top == Slice(scored, limit)
  IN  [i \in 1..Len(top) |-> top[i][2]]

(***************************************************************************)
(* Text.  A short string (a name, a keyword, a URL) is a TLC string.  A    *)
(* long text (a policy) is a record: the fragments that carry words, the   *)
(* number of filler characters around them (characters that occur in no    *)
(* keyword and that lower() leaves alone) and the number of capital        *)
(* dotted I (U+0130), the one character used here whose lower-case form    *)
(* is two code points long.  Fragments are separated by one filler         *)
(* character each, so no keyword matches across two fragments.             *)
(***************************************************************************)
UpperAlphabet == "ABCDEFGHIJKLMNOPQRSTUVWXYZ"

LowerAlphabet == "abcdefghijklmnopqrstuvwxyz"

\* The lower-case form of each ASCII capital.
LowerTable ==
  [c \in {SubSeq(UpperAlphabet, i, i) : i \in 1..26} |->
     LET i == CHOOSE i \in 1..26 : SubSeq(UpperAlphabet, i, i) = c
     IN  SubSeq(LowerAlphabet, i, i)]

\* str.lower() on one ASCII character.
LowerChar(c) == IF c \in DOMAIN LowerTable THEN LowerTable[c] ELSE c

\* str.lower() on an ASCII string, character by character.
RECURSIVE LowerStr(_)
LowerStr(s) ==
  IF Len(s) = 0 THEN ""
  ELSE IF Len(s) = 1 THEN LowerChar(s)
  ELSE LowerStr(SubSeq(s, 1, Len(s) \div 2))
         \o LowerStr(SubSeq(s, Len(s) \div 2 + 1, Len(s)))

\* s.split()[0]: the first whitespace-separated word (s has one).
RECURSIVE FirstWord(_)
FirstWord(s) ==
  IF Len(s) = 0 THEN ""
  ELSE IF SubSeq(s, 1, 1) = " "
         THEN (IF Len(s) = 1 THEN "" ELSE FirstWord(SubSeq(s, 2, Len(s))))
  ELSE IF \E i \in 1..Len(s) : SubSeq(s, i, i) = " "
         THEN LET i == CHOOSE i \in 1..Len(s) :
                         /\ SubSeq(s, i, i) = " "
                         /\ \A j \in 1..(i - 1) : SubSeq(s, j, j) # " "
              IN  SubSeq(s, 1, i - 1)
  ELSE s

\* sep.join(parts)
RECURSIVE Join(_, _)
Join(parts, sep) ==
  IF Len(parts) = 0 THEN ""
  ELSE IF Len(parts) = 1 THEN parts[1]
  ELSE parts[1] \o sep \o Join(Tail(parts), sep)

\* s.find(sub) + 1: the first position of sub in s, 0 when there is none.
IndexOf(sub, s) ==
  IF Contains(sub, s)
    THEN CHOOSE i \in 1..(Len(s) - Len(sub) + 1) :
           /\ SubSeq(s, i, i + Len(sub) - 1) = sub
           /\ \A j \in 1..(i - 1) : SubSeq(s, j, j + Len(sub) - 1) # sub
    ELSE 0

\* s.replace(old, new) for a non-empty old: the occurrences of old are
\* replaced from left to right; at is the position of the first one.
RECURSIVE ReplaceFrom(_, _, _, _)
ReplaceFrom(s, old, new, at) ==
  IF at = 0 THEN s
  ELSE SubSeq(s, 1, at - 1) \o new
         \o ReplaceFrom(SubSeq(s, at + Len(old), Len(s)), old, new,
                        IndexOf(old, SubSeq(s, at + Len(old), Len(s))))

Replace(s, old, new) == ReplaceFrom(s, old, new, IndexOf(old, s))

Pad3(n) ==
  IF n < 10 THEN "00" \o ToString(n)
  ELSE IF n < 100 THEN "0" \o ToString(n)
  ELSE ToString(n)

\* f"{n:,}"
RECURSIVE FmtThousands(_)
FmtThousands(n) ==
  IF n < 1000 THEN ToString(n)
  ELSE FmtThousands(n \div 1000) \o "," \o Pad3(n % 1000)

\* dict.get(key, default)
Get(rec, key, default) == IF key \in DOMAIN rec THEN rec[key] ELSE default

RECURSIVE SumLen(_)
SumLen(frags) ==
  IF Len(frags) = 0 THEN 0 ELSE Len(Head(frags)) + SumLen(Tail(frags))

EmptyText == [frags |-> << >>, filler |-> 0, dotted |-> 0]

\* len(text)
TextLen(text) ==
  SumLen(text.frags) + Max(0, Len(text.frags) - 1) + text.filler + text.dotted

\* text.lower(): every fragment lower-cased, every dotted I replaced by the
\* two code points "i" and U+0307 (counted as filler: they match no keyword).
LowerText(text) ==
  [frags |-> [i \in 1..Len(text.frags) |-> LowerStr(text.frags[i])],
   filler |-> text.filler + 2 * text.dotted,
   dotted |-> 0]

\* kw in text
InText(kw, text) ==
  IF Len(kw) = 0 THEN TRUE
  ELSE \E i \in 1..Len(text.frags) : Contains(kw, text.frags[i])

\* any(kw in text for kw in kws)
AnyInText(kws, text) == \E i \in 1..Len(kws) : InText(kws[i], text)

(***************************************************************************)
(* gap_analyzer.py                                                         *)
(***************************************************************************)
RECURSIVE SetToSeq(_)
SetToSeq(S) ==
  IF S = {} THEN << >>
  ELSE LET x == CHOOSE x \in S : TRUE IN <<x>> \o SetToSeq(S \ {x})

Reverse(s) == [i \in 1..Len(s) |-> s[Len(s) + 1 - i]]

\* list(set(...)): a set of strings is iterated in the order of the
\* elements' hashes, and string hashes are salted with a seed drawn when the
\* interpreter starts.  Two seeds stand for the orders a process can get.
IterOrder(S, seed) ==
  IF seed = 0 THEN SetToSeq(S) ELSE Reverse(SetToSeq(S))

RECURSIVE Largest2Power(_, _)
Largest2Power(p, k) == IF 2 * p <= k THEN Largest2Power(2 * p, k) ELSE p

\* int(t * 0.58) in double precision.  The double nearest 0.58 is
\* 0.58 - 0.36 * 2^-53, so when 0.58 * t is an integer K the product lies
\* just below K and rounds to the double under K when 0.36 * t exceeds the
\* largest power of two not above K; truncation then gives K - 1.
IntTimes058(t) ==
  LET K == (58 * t) \div 100
  IN  IF t > 0 /\ (58 * t) % 100 = 0 /\ 36 * t > 100 * Largest2Power(1, K)
        THEN K - 1
        ELSE K

\* int(t * 0.28): the double nearest 0.28 lies above 0.28; truncation gives
\* the exact floor.
IntTimes028(t) == (28 * t) \div 100

\* Five percent in place of one half of a percent.
IntTimes0005_Percent(t) == (5 * t) \div 100

\* int(t * 0.005): the double nearest 0.005 lies above 0.005.
IntTimes0005(t) == (5 * t) \div 1000

\* The text every rule builds from the cases the matcher returns.
CaseText(cases) ==
  Join([i \in 1..Len(cases) |->
          cases[i].company \o " fined " \o cases[i].fine \o " by "
            \o cases[i].authority \o " (" \o ToString(cases[i].year)
            \o ") for " \o cases[i].violation],
       "; ")

Names(ts) == [i \in 1..Len(ts) |-> ts[i].name]

NoGap == [risk |-> 0, gaps |-> << >>]

\* An advertising rule that counts every tracker, whatever its category.
Gap1_AllTrackers(trackers, policy_text, has_policy, seed, table) ==
  LET risk == Len(trackers) * 68000
  IN  IF Len(trackers) = 0 THEN NoGap
      ELSE [risk |-> risk,
            gaps |-> << [severity |-> "critical",
                         title |-> ToString(Len(trackers))
                                     \o " advertising trackers detected",
                         regulation |-> "CCPA s.1798.140(e) | CCPA s.1798.115 | GDPR Art. 13(1)(e)",
                         fine |-> "$" \o FmtThousands(risk),
                         fine_raw |-> risk,
                         claim |-> "Could not retrieve privacy policy to verify tracker disclosure.",
                         actual |-> "Detected on the page: "
                                      \o Join(Names(trackers), ", ") \o ".",
                         enforcement |-> "",
                         tags |-> <<"advertising", "disclosure">>] >>]

\* GAP 1: undisclosed advertising trackers.
Gap1(trackers, policy_text, has_policy, seed, table) ==
  LET ad_trackers ==
        SelectSeq(trackers,
                  LAMBDA t : Get(t, "category", "") = "advertising")
      tracker_names == Names(ad_trackers)
      all_data ==
        IterOrder(UNION {Range(Get(ad_trackers[i], "data_shared", << >>)) :
                           i \in 1..Len(ad_trackers)},
                  seed)
      undisclosed ==
        IF has_policy
          THEN Names(SelectSeq(ad_trackers,
                 LAMBDA t :
                   /\ ~InText(FirstWord(LowerStr(t.name)), policy_text)
                   /\ ~InText(LowerStr(Get(t, "signature", "")),
                              policy_text)))
          ELSE tracker_names
      claim_text ==
        IF has_policy
          THEN "Privacy policy "
                 \o (IF Len(undisclosed) > 0
                       THEN "mentions general \"partners\" but does not name: "
                              \o Join(undisclosed, ", ")
                       ELSE "discloses some ad partners")
                 \o "."
          ELSE "Could not retrieve privacy policy to verify tracker disclosure."
      risk == Len(ad_trackers) * 68000
      cases == find_relevant_cases(<<"advertising", "disclosure", "consent">>,
                                   DefaultLimit, table)
      case_text ==
        IF Len(cases) > 0 THEN CaseText(cases)
        ELSE "Multiple companies fined for undisclosed tracking."
  IN  IF Len(ad_trackers) = 0 THEN NoGap
      ELSE [risk |-> risk,
            gaps |-> << [severity |-> IF Len(undisclosed) > 0
                                        THEN "critical" ELSE "warning",
                         title |-> ToString(Len(ad_trackers))
                                     \o " advertising trackers detected"
                                     \o (IF has_policy /\ Len(undisclosed) > 0
                                           THEN " - "
                                                  \o ToString(Len(undisclosed))
                                                  \o " not disclosed in policy"
                                           ELSE ""),
                         regulation |-> "CCPA s.1798.140(e) | CCPA s.1798.115 | GDPR Art. 13(1)(e)",
                         fine |-> "$" \o FmtThousands(risk),
                         fine_raw |-> risk,
                         claim |-> claim_text,
                         actual |-> "Detected on the page: "
                                      \o Join(tracker_names, ", ")
                                      \o ". These collect: "
                                      \o Join(Slice(all_data, 6), ", ")
                                      \o ".",
                         enforcement |-> case_text,
                         tags |-> <<"advertising", "disclosure">>] >>]

\* Non-ad trackers worth noting: undisclosed analytics trackers.
GapAnalytics(trackers, policy_text, has_policy) ==
  LET analytics_trackers ==
        SelectSeq(trackers, LAMBDA t : Get(t, "category", "") = "analytics")
      undisclosed_analytics ==
        Names(SelectSeq(analytics_trackers,
                LAMBDA t : ~InText(FirstWord(LowerStr(t.name)), policy_text)))
      risk == Len(undisclosed_analytics) * 15000
  IN  IF Len(analytics_trackers) > 0 /\ has_policy
           /\ Len(undisclosed_analytics) > 0
        THEN [risk |-> risk,
              gaps |-> << [severity |-> "warning",
                           title |-> ToString(Len(undisclosed_analytics))
                                       \o " analytics tools detected but not named in policy",
                           regulation |-> "GDPR Art. 13(1)(e) | CCPA s.1798.100(b)",
                           fine |-> "$" \o FmtThousands(risk),
                           fine_raw |-> risk,
                           claim |-> "Privacy policy does not specifically name these analytics providers.",
                           actual |-> "Detected analytics tools: "
                                        \o Join(undisclosed_analytics, ", ")
                                        \o ". GDPR requires disclosure of specific data recipients.",
                           enforcement |-> "Transparency about analytics providers is a standard requirement under GDPR Art. 13.",
                           tags |-> <<"analytics", "disclosure">>] >>]
        ELSE NoGap

\* GAP 2: cookie consent issues.
Gap2(consent, table) ==
  LET consent_issues == Get(consent, "issues", << >>)
      risk == 180000
      cases == find_relevant_cases(<<"cookies", "consent">>, DefaultLimit,
                                   table)
      case_text == IF Len(cases) > 0 THEN CaseText(cases) ELSE ""
      provider == Get(consent, "provider", "")
  IN  IF Len(consent_issues) = 0 THEN NoGap
      ELSE [risk |-> risk,
            gaps |-> << [severity |-> "critical",
                         title |-> "Cookie consent issues detected",
                         regulation |-> "GDPR Art. 7 | ePrivacy Directive Art. 5(3) | CCPA s.1798.120",
                         fine |-> "$" \o FmtThousands(risk),
                         fine_raw |-> risk,
                         claim |-> (IF Get(consent, "detected", FALSE)
                                      THEN "Cookie consent banner detected"
                                      ELSE "No cookie consent banner found on the page")
                                     \o (IF Len(provider) > 0
                                           THEN " (provider: " \o provider
                                                  \o ")"
                                           ELSE "")
                                     \o ".",
                         actual |-> Join(consent_issues, ". ")
                                      \o ". GDPR requires freely given, specific, informed consent with equal prominence for accept and reject.",
                         enforcement |-> case_text,
                         tags |-> <<"cookies", "consent">>] >>]

Descriptions(ss) == [i \in 1..Len(ss) |-> ss[i].description]

\* GAP 3 with the keywords of any text, however short, counted.
Gap3_ShortTextSuppresses(signals, policy_text, has_policy, table) ==
  LET location_signals ==
        SelectSeq(signals, LAMBDA s : s.category = "geolocation")
      location_in_policy ==
        AnyInText(<<"location", "geolocation", "gps", "geographic">>,
                       policy_text)
      risk == 2100000
      cases == find_relevant_cases(<<"location", "disclosure">>,
                                   DefaultLimit, table)
      case_text == IF Len(cases) > 0 THEN CaseText(cases) ELSE ""
  IN  IF Len(location_signals) = 0 \/ location_in_policy THEN NoGap
      ELSE [risk |-> risk,
            gaps |-> << [severity |-> "critical",
                         title |-> "Location tracking code detected"
                                     \o (IF has_policy
                                           THEN " - not disclosed in policy"
                                           ELSE ""),
                         regulation |-> "GDPR Art. 13(1)(e) | CCPA s.1798.100(b)",
                         fine |-> "$" \o FmtThousands(risk),
                         fine_raw |-> risk,
                         claim |-> IF has_policy
                                     THEN "Privacy policy does not mention location data collection."
                                     ELSE "Could not retrieve privacy policy to verify location disclosure.",
                         actual |-> "Detected: "
                                      \o Join(Descriptions(location_signals),
                                              ", ")
                                      \o ". Location data is classified as sensitive personal information.",
                         enforcement |-> case_text,
                         tags |-> <<"location", "disclosure">>] >>]

\* GAP 3: location data.
Gap3(signals, policy_text, has_policy, table) ==
  LET location_signals ==
        SelectSeq(signals, LAMBDA s : s.category = "geolocation")
      location_in_policy ==
        has_policy
          /\ AnyInText(<<"location", "geolocation", "gps", "geographic">>,
                       policy_text)
      risk == 2100000
      cases == find_relevant_cases(<<"location", "disclosure">>,
                                   DefaultLimit, table)
      case_text == IF Len(cases) > 0 THEN CaseText(cases) ELSE ""
  IN  IF Len(location_signals) = 0 \/ location_in_policy THEN NoGap
      ELSE [risk |-> risk,
            gaps |-> << [severity |-> "critical",
                         title |-> "Location tracking code detected"
                                     \o (IF has_policy
                                           THEN " - not disclosed in policy"
                                           ELSE ""),
                         regulation |-> "GDPR Art. 13(1)(e) | CCPA s.1798.100(b)",
                         fine |-> "$" \o FmtThousands(risk),
                         fine_raw |-> risk,
                         claim |-> IF has_policy
                                     THEN "Privacy policy does not mention location data collection."
                                     ELSE "Could not retrieve privacy policy to verify location disclosure.",
                         actual |-> "Detected: "
                                      \o Join(Descriptions(location_signals),
                                              ", ")
                                      \o ". Location data is classified as sensitive personal information.",
                         enforcement |-> case_text,
                         tags |-> <<"location", "disclosure">>] >>]

\* A recording rule that books its risk as soon as a recording signal
\* exists, whether or not it then lists the gap.
Gap4_RiskFirst(signals, policy_text, has_policy) ==
  LET recording_signals ==
        SelectSeq(signals, LAMBDA s : s.category = "session_recording")
      recording_in_policy ==
        has_policy
          /\ AnyInText(<<"session recording", "session replay",
                         "screen recording", "hotjar", "fullstory",
                         "clarity">>, policy_text)
      risk == 95000
  IN  IF Len(recording_signals) = 0 THEN NoGap
      ELSE IF recording_in_policy THEN [risk |-> risk, gaps |-> << >>]
      ELSE [risk |-> risk,
            gaps |-> << [severity |-> "warning",
                         title |-> "Session recording tools detected",
                         regulation |-> "GDPR Art. 13 | CCPA s.1798.100(b) | ePrivacy Art. 5(3)",
                         fine |-> "$" \o FmtThousands(risk),
                         fine_raw |-> risk,
                         claim |-> "Privacy policy does not disclose session recording.",
                         actual |-> "Detected: "
                                      \o Join(Descriptions(recording_signals),
                                              ", ") \o ".",
                         enforcement |-> "",
                         tags |-> <<"recording", "transparency">>] >>]

\* GAP 4: session recording.
Gap4(signals, policy_text, has_policy) ==
  LET recording_signals ==
        SelectSeq(signals, LAMBDA s : s.category = "session_recording")
      recording_in_policy ==
        has_policy
          /\ AnyInText(<<"session recording", "session replay",
                         "screen recording", "hotjar", "fullstory",
                         "clarity">>, policy_text)
      risk == 95000
  IN  IF Len(recording_signals) = 0 \/ recording_in_policy THEN NoGap
      ELSE [risk |-> risk,
            gaps |-> << [severity |-> "warning",
                         title |-> "Session recording tools detected"
                                     \o (IF has_policy
                                           THEN " - not disclosed in policy"
                                           ELSE ""),
                         regulation |-> "GDPR Art. 13 | CCPA s.1798.100(b) | ePrivacy Art. 5(3)",
                         fine |-> "$" \o FmtThousands(risk),
                         fine_raw |-> risk,
                         claim |-> IF has_policy
                                     THEN "Privacy policy does not disclose session recording."
                                     ELSE "Could not verify disclosure - privacy policy not retrieved.",
                         actual |-> "Detected: "
                                      \o Join(Descriptions(recording_signals),
                                              ", ")
                                      \o ". Session recording captures mouse movements, clicks, scrolling, and form input.",
                         enforcement |-> "Session recording without disclosure flagged by multiple EU DPAs as transparency violation.",
                         tags |-> <<"recording", "transparency">>] >>]

\* GAP 5 with vague language firing the rule by itself.
Gap5_VagueFires(policy_text, table) ==
  LET retention_keywords ==
        <<"retention period", "retain your data for", "store your data for",
          "delete after", "retained for", "keep your data for", "days",
          "months", "years">>
      has_specific_retention == AnyInText(retention_keywords, policy_text)
      vague_retention ==
        AnyInText(<<"as long as necessary", "as needed",
                    "reasonable period">>, policy_text)
      risk == 45000
      cases == find_relevant_cases(<<"retention", "deletion">>, DefaultLimit,
                                   table)
      case_text == IF Len(cases) > 0 THEN CaseText(cases) ELSE ""
  IN  IF ~has_specific_retention \/ vague_retention
        THEN [risk |-> risk,
              gaps |-> << [severity |-> "warning",
                           title |-> "Data retention periods "
                                       \o (IF vague_retention THEN "vague"
                                           ELSE "not specified"),
                           regulation |-> "GDPR Art. 13(2)(a) | CCPA s.1798.100(a)(3)",
                           fine |-> "$" \o FmtThousands(risk),
                           fine_raw |-> risk,
                           claim |-> "Privacy policy "
                                       \o (IF vague_retention
                                             THEN "uses vague language like \"as long as necessary\" without specific periods"
                                             ELSE "does not specify data retention periods")
                                       \o ".",
                           actual |-> "GDPR requires specific storage periods or clear criteria. Vague language has been consistently found non-compliant by EU DPAs.",
                           enforcement |-> case_text,
                           tags |-> <<"retention", "transparency">>] >>]
        ELSE NoGap

\* GAP 5: data retention.
Gap5(policy_text, table) ==
  LET retention_keywords ==
        <<"retention period", "retain your data for", "store your data for",
          "delete after", "retained for", "keep your data for", "days",
          "months", "years">>
      has_specific_retention == AnyInText(retention_keywords, policy_text)
      vague_retention ==
        AnyInText(<<"as long as necessary", "as needed",
                    "reasonable period">>, policy_text)
      risk == 45000
      cases == find_relevant_cases(<<"retention", "deletion">>, DefaultLimit,
                                   table)
      case_text == IF Len(cases) > 0 THEN CaseText(cases) ELSE ""
  IN  IF ~has_specific_retention
           \/ (vague_retention /\ ~has_specific_retention)
        THEN [risk |-> risk,
              gaps |-> << [severity |-> "warning",
                           title |-> "Data retention periods "
                                       \o (IF vague_retention THEN "vague"
                                           ELSE "not specified"),
                           regulation |-> "GDPR Art. 13(2)(a) | CCPA s.1798.100(a)(3)",
                           fine |-> "$" \o FmtThousands(risk),
                           fine_raw |-> risk,
                           claim |-> "Privacy policy "
                                       \o (IF vague_retention
                                             THEN "uses vague language like \"as long as necessary\" without specific periods"
                                             ELSE "does not specify data retention periods")
                                       \o ".",
                           actual |-> "GDPR requires specific storage periods or clear criteria. Vague language has been consistently found non-compliant by EU DPAs.",
                           enforcement |-> case_text,
                           tags |-> <<"retention", "transparency">>] >>]
        ELSE NoGap

\* rights_keywords, in dictionary order; label is
\* right.replace('_', ' ').title().
RightsKeywords ==
  << [right |-> "access", label |-> "Access",
      keywords |-> <<"right to access", "right of access",
                     "access your data", "request a copy",
                     "access request">>],
     [right |-> "deletion", label |-> "Deletion",
      keywords |-> <<"right to deletion", "right to erasure",
                     "delete your data", "right to be forgotten",
                     "request deletion">>],
     [right |-> "portability", label |-> "Portability",
      keywords |-> <<"data portability", "portable format",
                     "machine-readable", "export your data">>],
     [right |-> "objection", label |-> "Objection",
      keywords |-> <<"right to object", "object to processing",
                     "opt out of processing">>],
     [right |-> "opt_out_sale", label |-> "Opt Out Sale",
      keywords |-> <<"do not sell", "opt-out of sale",
                     "opt out of the sale", "do not share">>] >>

\* GAP 6 flagging a single missing right.
Gap6_SingleFires(policy_text) ==
  LET missing_rights ==
        SelectSeq(RightsKeywords,
                  LAMBDA r : ~AnyInText(r.keywords, policy_text))
      risk == 8000 * Len(missing_rights)
  IN  IF Len(missing_rights) >= 1
        THEN [risk |-> risk,
              gaps |-> << [severity |-> IF Len(missing_rights) >= 3
                                          THEN "warning" ELSE "info",
                           title |-> "User rights disclosure incomplete - missing "
                                       \o ToString(Len(missing_rights))
                                       \o " rights",
                           regulation |-> "GDPR Art. 15-22 | CCPA s.1798.100-125",
                           fine |-> "$" \o FmtThousands(risk),
                           fine_raw |-> risk,
                           claim |-> "Privacy policy mentions some user rights but does not cover all required rights.",
                           actual |-> "Could not find disclosure of: "
                                        \o Join([i \in 1..Len(missing_rights)
                                                   |-> missing_rights[i].label],
                                                ", ")
                                        \o ". Both GDPR and CCPA require clear disclosure of all applicable rights.",
                           enforcement |-> "Incomplete rights disclosures are among the most common findings in regulatory audits.",
                           tags |-> <<"rights", "transparency">>] >>]
        ELSE NoGap

\* GAP 6: missing rights disclosure.
Gap6(policy_text) ==
  LET missing_rights ==
        SelectSeq(RightsKeywords,
                  LAMBDA r : ~AnyInText(r.keywords, policy_text))
      risk == 8000 * Len(missing_rights)
  IN  IF Len(missing_rights) >= 2
        THEN [risk |-> risk,
              gaps |-> << [severity |-> IF Len(missing_rights) >= 3
                                          THEN "warning" ELSE "info",
                           title |-> "User rights disclosure incomplete - missing "
                                       \o ToString(Len(missing_rights))
                                       \o " rights",
                           regulation |-> "GDPR Art. 15-22 | CCPA s.1798.100-125",
                           fine |-> "$" \o FmtThousands(risk),
                           fine_raw |-> risk,
                           claim |-> "Privacy policy mentions some user rights but does not cover all required rights.",
                           actual |-> "Could not find disclosure of: "
                                        \o Join([i \in 1..Len(missing_rights)
                                                   |-> missing_rights[i].label],
                                                ", ")
                                        \o ". Both GDPR and CCPA require clear disclosure of all applicable rights.",
                           enforcement |-> "Incomplete rights disclosures are among the most common findings in regulatory audits.",
                           tags |-> <<"rights", "transparency">>] >>]
        ELSE NoGap

\* GAP 7: cross-border transfers.
Gap7(trackers, policy_text, table) ==
  LET us_trackers ==
        SelectSeq(trackers,
                  LAMBDA t :
                    \E x \in {"google", "meta", "facebook", "amazon",
                              "microsoft", "tiktok"} :
                      Contains(x, LowerStr(t.name)))
      transfer_in_policy ==
        AnyInText(<<"international transfer", "cross-border",
                    "data transfer", "standard contractual",
                    "adequacy decision", "transfer outside",
                    "transferred to", "united states">>, policy_text)
      risk == 35000
      cases == find_relevant_cases(<<"cross_border", "data_transfer">>,
                                   DefaultLimit, table)
      case_text == IF Len(cases) > 0 THEN CaseText(cases) ELSE ""
  IN  IF Len(us_trackers) > 0 /\ ~transfer_in_policy
        THEN [risk |-> risk,
              gaps |-> << [severity |-> "info",
                           title |-> "Cross-border data transfers not addressed in policy",
                           regulation |-> "GDPR Art. 44-49",
                           fine |-> "$" \o FmtThousands(risk),
                           fine_raw |-> risk,
                           claim |-> "Privacy policy does not address international data transfers.",
                           actual |-> "Detected "
                                        \o ToString(Len(us_trackers))
                                        \o " US-based services ("
                                        \o Join(Names(Slice(us_trackers, 4)),
                                                ", ")
                                        \o "). For EU users, transfers require SCCs or other valid mechanisms.",
                           enforcement |-> case_text,
                           tags |-> <<"cross_border", "data_transfer">>] >>]
        ELSE NoGap

\* GAP 8: children's data.
Gap8(policy_text) ==
  LET children_in_policy ==
        AnyInText(<<"children", "child", "minor", "under 13", "under 16",
                    "coppa", "parental consent", "age">>, policy_text)
      risk == 5000
  IN  IF ~children_in_policy
        THEN [risk |-> risk,
              gaps |-> << [severity |-> "info",
                           title |-> "Children's data provisions not addressed in policy",
                           regulation |-> "COPPA | GDPR Art. 8 | UK AADC",
                           fine |-> "$" \o FmtThousands(risk),
                           fine_raw |-> risk,
                           claim |-> "Privacy policy does not mention age restrictions or children's data handling.",
                           actual |-> "No age verification mechanism detected and no children's data section in privacy policy. If accessible to minors, COPPA and GDPR Art. 8 requirements apply.",
                           enforcement |-> "Epic Games fined $275M (2022) for COPPA violations. TikTok fined EUR345M (2023) for children's privacy failures.",
                           tags |-> <<"children", "coppa">>] >>]
        ELSE NoGap

\* The loops collecting excessive_fields: the names of the required fields
\* whose lower-cased name holds a sensitive keyword, form by form.
RECURSIVE ExcessiveFields(_)
ExcessiveFields(forms) ==
  IF Len(forms) = 0 THEN << >>
  ELSE LET fields == Get(Head(forms), "fields", << >>)
           flagged ==
             SelectSeq(fields,
                       LAMBDA f :
                         /\ \E x \in {"phone", "tel", "mobile", "birth",
                                      "dob", "age", "address", "street",
                                      "zip", "postal", "ssn",
                                      "social security", "gender", "sex"} :
                              Contains(x, LowerStr(f.name))
                         /\ Get(f, "required", FALSE))
       IN  Names(flagged) \o ExcessiveFields(Tail(forms))

\* GAP 6 (alternative): excessive data in forms.
GapForms(forms, policy_text) ==
  LET excessive_fields == ExcessiveFields(forms)
      risk == 12000 * Len(excessive_fields)
  IN  IF Len(excessive_fields) > 0
        THEN [risk |-> risk,
              gaps |-> << [severity |-> "warning",
                           title |-> "Forms require "
                                       \o ToString(Len(excessive_fields))
                                       \o " potentially excessive fields",
                           regulation |-> "GDPR Art. 5(1)(c) - Data Minimization",
                           fine |-> "$" \o FmtThousands(risk),
                           fine_raw |-> risk,
                           claim |-> IF InText("minim", policy_text)
                                       THEN "Data minimization requires only collecting necessary data."
                                       ELSE "Policy does not address data minimization.",
                           actual |-> "Detected required fields: "
                                        \o Join(Slice(excessive_fields, 5),
                                                ", ")
                                        \o ". These may not be necessary for core service functionality.",
                           enforcement |-> "Deliveroo fined EUR2.5M (2021) for collecting excessive data beyond service necessity.",
                           tags |-> <<"minimization", "excessive_collection">>] >>]
        ELSE NoGap

\* severity_order.get(severity, 3)
SeverityOrder(sev) ==
  CASE sev = "critical" -> 0
    [] sev = "warning" -> 1
    [] sev = "info" -> 2
    [] OTHER -> 3

\* A sort by severity that does not keep the order of equal keys.
SortBySeverity_Unstable(gaps) ==
  LET Reversed(seq) == [i \in 1..Len(seq) |-> seq[Len(seq) + 1 - i]]
  IN  Reversed(SelectSeq(gaps, LAMBDA g : SeverityOrder(g.severity) = 0))
        \o Reversed(SelectSeq(gaps, LAMBDA g : SeverityOrder(g.severity) = 1))
        \o Reversed(SelectSeq(gaps, LAMBDA g : SeverityOrder(g.severity) = 2))
        \o Reversed(SelectSeq(gaps, LAMBDA g : SeverityOrder(g.severity) = 3))

\* gaps.sort(key=severity_order): stable, so each severity class keeps the
\* order in which the rules appended its gaps.
SortBySeverity(gaps) ==
  SelectSeq(gaps, LAMBDA g : SeverityOrder(g.severity) = 0)
    \o SelectSeq(gaps, LAMBDA g : SeverityOrder(g.severity) = 1)
    \o SelectSeq(gaps, LAMBDA g : SeverityOrder(g.severity) = 2)
    \o SelectSeq(gaps, LAMBDA g : SeverityOrder(g.severity) = 3)

CountSeverity(gaps, sev) == Len(SelectSeq(gaps, LAMBDA g : g.severity = sev))

CountRegulation(gaps, word) ==
  Len(SelectSeq(gaps, LAMBDA g : Contains(word, g.regulation)))

\* The report returned when nothing was found and there is no policy.
IndeterminateReport ==
  [gaps |-> << >>,
   total_gaps |-> 0, critical_count |-> 0, warning_count |-> 0,
   info_count |-> 0,
   total_risk_exposure |-> 0, risk_after_fix |-> 0,
   compliance_score |-> 0,
   risk_by_regulation |->
     << [name |-> "GDPR", amount |-> 0,
         detail |-> "Could not retrieve policy for analysis"],
        [name |-> "CCPA/CPRA", amount |-> 0,
         detail |-> "Could not retrieve policy for analysis"],
        [name |-> "State Laws", amount |-> 0,
         detail |-> "Could not retrieve policy for analysis"] >>,
   note |-> "Unable to retrieve privacy policy. Use Advanced Options to paste policy text for a complete analysis."]

\* A score whose per-gap and per-critical weights are exchanged.
ComplianceScore_Swapped(gap_count, critical_count, has_policy) ==
  IF gap_count > 0
    THEN Max(5, 100 - (gap_count * 8) - (critical_count * 9))
    ELSE (IF has_policy THEN 85 ELSE 0)

\* The expression assigned to "compliance_score".
ComplianceScore(gap_count, critical_count, has_policy) ==
  IF gap_count > 0
    THEN Max(5, 100 - (gap_count * 9) - (critical_count * 8))
    ELSE (IF has_policy THEN 85 ELSE 0)

\* An early return that is taken whenever no rule fired.
EarlyReturn_NoGaps(gaps, has_policy) == Len(gaps) = 0

\* "if not gaps and not has_policy": the early, indeterminate return.
EarlyReturn(gaps, has_policy) == Len(gaps) = 0 /\ ~has_policy

\* gaps.append(...) of every rule that fired, in rule order.
RECURSIVE Appended(_)
Appended(fired) ==
  IF Len(fired) = 0 THEN << >>
  ELSE Head(fired).gaps \o Appended(Tail(fired))

\* total_risk += risk of every rule that booked a risk.
RECURSIVE TotalRisk(_)
TotalRisk(fired) ==
  IF Len(fired) = 0 THEN 0 ELSE Head(fired).risk + TotalRisk(Tail(fired))

\* The rules in the order the function runs them.
Rules(trackers, forms, signals, consent, policy_text, has_policy, seed, table) ==
  << Gap1(trackers, policy_text, has_policy, seed, table),
     GapAnalytics(trackers, policy_text, has_policy),
     Gap2(consent, table),
     Gap3(signals, policy_text, has_policy, table),
     Gap4(signals, policy_text, has_policy) >>
  \o (IF has_policy
        THEN << Gap5(policy_text, table),
                Gap6(policy_text),
                Gap7(trackers, policy_text, table),
                Gap8(policy_text) >>
        ELSE << >>)
  \o << GapForms(forms, policy_text) >>

\* The dictionary of the final return statement.
FullReport(gaps, total_risk, gdpr_risk, ccpa_risk, has_policy) ==
  [gaps |-> gaps,
   total_gaps |-> Len(gaps),
   critical_count |-> CountSeverity(gaps, "critical"),
   warning_count |-> CountSeverity(gaps, "warning"),
   info_count |-> CountSeverity(gaps, "info"),
   total_risk_exposure |-> total_risk,
   risk_after_fix |-> IF total_risk > 0
                        THEN Max(IntTimes0005(total_risk), 500)
                        ELSE 0,
   risk_by_regulation |->
     << [name |-> "GDPR", amount |-> gdpr_risk,
         detail |-> ToString(CountRegulation(gaps, "GDPR"))
                      \o " violations found"],
        [name |-> "CCPA/CPRA", amount |-> ccpa_risk,
         detail |-> ToString(CountRegulation(gaps, "CCPA"))
                      \o " violations found"],
        [name |-> "State Laws",
         amount |-> total_risk - gdpr_risk - ccpa_risk,
         detail |-> "VA CDPA, CO CPA, TX TDPSA combined"] >>,
   compliance_score |->
     ComplianceScore(Len(gaps), CountSeverity(gaps, "critical"), has_policy)]

\* Everything after the rules: the early return, the split, the sort.
Conclude(gaps, total_risk, has_policy) ==
  IF EarlyReturn(gaps, has_policy)
    THEN IndeterminateReport
    ELSE FullReport(SortBySeverity(gaps), total_risk,
                    IntTimes058(total_risk), IntTimes028(total_risk),
                    has_policy)

RunRules(fired, has_policy) ==
  Conclude(Appended(fired), TotalRisk(fired), has_policy)

AnalyzeLowered(crawl_data, policy_text, seed, table) ==
  RunRules(Rules(Get(crawl_data, "trackers_found", << >>),
                 Get(crawl_data, "forms_detected", << >>),
                 Get(crawl_data, "data_collection_signals", << >>),
                 Get(crawl_data, "consent_banner", << >>),
                 policy_text, TextLen(policy_text) > 200, seed, table),
           TextLen(policy_text) > 200)

analyze_gaps(crawl_data, seed, table) ==
  AnalyzeLowered(crawl_data,
                 LowerText(Get(crawl_data, "privacy_policy_text", EmptyText)),
                 seed, table)

(***************************************************************************)
(* crawler.py                                                              *)
(*                                                                         *)
(* A page is the sequence of its elements, in document order.  An element  *)
(* is a record: its tag, and the attributes and text it has.  The body of  *)
(* the response (resp.text) is the elements written out as markup, and     *)
(* the parsed document (soup) is the sequence itself.  An element with     *)
(* encoded = TRUE writes the dots of its attribute values as the           *)
(* character reference "&#46;", which the parser decodes: the attribute    *)
(* the parser returns then differs from the bytes of the body.             *)
(***************************************************************************)
StartsWith(s, p) == Len(s) >= Len(p) /\ SubSeq(s, 1, Len(p)) = p

\* s.split(sep)[0]
SplitFirst(s, sep) ==
  IF IndexOf(sep, s) = 0 THEN s ELSE SubSeq(s, 1, IndexOf(sep, s) - 1)

\* s.strip(chars): the characters of chars removed from both ends.
Strip(s, chars) ==
  LET keep == {i \in 1..Len(s) : ~Contains(SubSeq(s, i, i), chars)}
  IN  IF keep = {} THEN ""
      ELSE SubSeq(s, CHOOSE i \in keep : \A j \in keep : i <= j,
                     CHOOSE i \in keep : \A j \in keep : j <= i)

\* str.upper() on one ASCII character.
UpperChar(c) ==
  IF \E i \in 1..26 : SubSeq(LowerAlphabet, i, i) = c
    THEN LET i == CHOOSE i \in 1..26 : SubSeq(LowerAlphabet, i, i) = c
         IN  SubSeq(UpperAlphabet, i, i)
    ELSE c

\* str.upper() on an ASCII string.
RECURSIVE UpperStr(_)
UpperStr(s) ==
  IF Len(s) = 0 THEN ""
  ELSE UpperChar(SubSeq(s, 1, 1)) \o UpperStr(SubSeq(s, 2, Len(s)))

\* str.capitalize()
Capitalize(s) ==
  IF Len(s) = 0 THEN ""
  ELSE UpperChar(SubSeq(s, 1, 1)) \o LowerStr(SubSeq(s, 2, Len(s)))

\* urlparse(url).scheme, for a url that has one.
Scheme(url) ==
  IF IndexOf("://", url) = 0 THEN ""
  ELSE SubSeq(url, 1, IndexOf("://", url) - 1)

\* urlparse(url).netloc: what stands between "://" and the next "/", "?"
\* or "#".
NetLoc(url) ==
  IF IndexOf("://", url) = 0 THEN ""
  ELSE LET rest  == SubSeq(url, IndexOf("://", url) + 3, Len(url))
           stops == {i \in 1..Len(rest) :
                       SubSeq(rest, i, i) \in {"/", "?", "#"}}
       IN  IF stops = {} THEN rest
           ELSE SubSeq(rest, 1,
                       (CHOOSE i \in stops : \A j \in stops : i <= j) - 1)

\* urljoin(base, ref) for a base without query and a ref that is a path:
\* "//host/path" takes the scheme of base, "/path" its scheme and host,
\* and any other ref replaces the last segment of the path of base.
UrlJoin(base, ref) ==
  LET root == Scheme(base) \o "://" \o NetLoc(base)
      path == SubSeq(base, Len(root) + 1, Len(base))
      cuts == {i \in 1..Len(path) : SubSeq(path, i, i) = "/"}
      dir  == IF cuts = {} THEN "/"
              ELSE SubSeq(path, 1, CHOOSE i \in cuts : \A j \in cuts : j <= i)
  IN  IF StartsWith(ref, "//") THEN Scheme(base) \o ":" \o ref
      ELSE IF StartsWith(ref, "/") THEN root \o ref
      ELSE IF Contains("://", ref) THEN ref
      ELSE root \o dir \o ref

\* An attribute value as the body of the response spells it.
Enc(e, v) ==
  IF Get(e, "encoded", FALSE) THEN Replace(v, ".", "&#46;") ELSE v

\* One input, select or textarea of a form, as markup.
RenderInput(inp) ==
  "<" \o inp.tag
    \o (IF "type" \in DOMAIN inp THEN " type=\"" \o inp.type \o "\"" ELSE "")
    \o (IF "name" \in DOMAIN inp THEN " name=\"" \o inp.name \o "\"" ELSE "")
    \o (IF "id" \in DOMAIN inp THEN " id=\"" \o inp.id \o "\"" ELSE "")
    \o (IF "placeholder" \in DOMAIN inp
          THEN " placeholder=\"" \o inp.placeholder \o "\"" ELSE "")
    \o (IF "aria_required" \in DOMAIN inp
          THEN " aria-required=\"" \o inp.aria_required \o "\"" ELSE "")
    \o (IF "required" \in DOMAIN inp THEN " required" ELSE "")
    \o ">"

\* One element as markup.
Render(e) ==
  CASE e.tag = "script" /\ "src" \in DOMAIN e ->
         "<script src=\"" \o Enc(e, e.src) \o "\"></script>"
    [] e.tag = "script" /\ "src" \notin DOMAIN e ->
         "<script>" \o e.text \o "</script>"
    [] e.tag = "img" ->
         "<img src=\"" \o Enc(e, e.src) \o "\">"
    [] e.tag = "link" ->
         "<link rel=\"" \o Join(e.rel, " ") \o "\" href=\""
           \o Enc(e, e.href) \o "\">"
    [] e.tag = "a" ->
         "<a href=\"" \o Enc(e, e.href) \o "\">" \o e.text \o "</a>"
    [] e.tag = "form" ->
         "<form"
           \o (IF "action" \in DOMAIN e
                 THEN " action=\"" \o e.action \o "\"" ELSE "")
           \o (IF "method" \in DOMAIN e
                 THEN " method=\"" \o e.method \o "\"" ELSE "")
           \o ">"
           \o Join([i \in 1..Len(e.inputs) |-> RenderInput(e.inputs[i])], "")
           \o "</form>"
    [] OTHER ->
         "<" \o e.tag \o ">" \o e.text \o "</" \o e.tag \o ">"

\* resp.text of a response that carries the page.
Html(page) == Join([i \in 1..Len(page) |-> Render(page[i])], "")

\* soup.find_all(tag)
FindAll(page, tag) == SelectSeq(page, LAMBDA e : e.tag = tag)

(***************************************************************************)
(* detect_trackers                                                         *)
(***************************************************************************)
\* The dictionary tracker_functions, in its order.
tracker_functions ==
  << [sig |-> "gtag(", name |-> "Google Analytics/Ads", cat |-> "analytics",
      data |-> <<"page views", "events", "conversions">>],
     [sig |-> "ga('", name |-> "Google Analytics (Legacy)", cat |-> "analytics",
      data |-> <<"page views", "user behavior">>],
     [sig |-> "ga(\"", name |-> "Google Analytics (Legacy)", cat |-> "analytics",
      data |-> <<"page views", "user behavior">>],
     [sig |-> "fbq(", name |-> "Meta Pixel", cat |-> "advertising",
      data |-> <<"page views", "custom events", "conversions">>],
     [sig |-> "ttq.", name |-> "TikTok Pixel", cat |-> "advertising",
      data |-> <<"page views", "events", "device fingerprint">>],
     [sig |-> "twq(", name |-> "Twitter/X Pixel", cat |-> "advertising",
      data |-> <<"page views", "conversion events">>],
     [sig |-> "pintrk(", name |-> "Pinterest Tag", cat |-> "advertising",
      data |-> <<"page views", "conversion events">>],
     [sig |-> "snaptr(", name |-> "Snapchat Pixel", cat |-> "advertising",
      data |-> <<"page views", "conversion events">>],
     [sig |-> "lintrk(", name |-> "LinkedIn Insight", cat |-> "advertising",
      data |-> <<"page views", "professional data">>],
     [sig |-> "_hj(", name |-> "Hotjar", cat |-> "analytics",
      data |-> <<"session recordings", "heatmaps", "clicks">>],
     [sig |-> "hj(", name |-> "Hotjar", cat |-> "analytics",
      data |-> <<"session recordings", "heatmaps", "clicks">>],
     [sig |-> "clarity(", name |-> "Microsoft Clarity", cat |-> "analytics",
      data |-> <<"session recordings", "heatmaps">>],
     [sig |-> "mixpanel", name |-> "Mixpanel", cat |-> "analytics",
      data |-> <<"user events", "funnels", "user properties">>],
     [sig |-> "amplitude", name |-> "Amplitude", cat |-> "analytics",
      data |-> <<"user events", "behavioral analytics">>],
     [sig |-> "segment.", name |-> "Segment", cat |-> "analytics",
      data |-> <<"all event data", "user profiles">>],
     [sig |-> "optimizely", name |-> "Optimizely", cat |-> "analytics",
      data |-> <<"A/B test data", "user segments">>],
     [sig |-> "heap.track", name |-> "Heap Analytics", cat |-> "analytics",
      data |-> <<"auto-captured events", "sessions">>],
     [sig |-> "intercom(", name |-> "Intercom", cat |-> "customer_data",
      data |-> <<"user identity", "chat messages">>],
     [sig |-> "Intercom(", name |-> "Intercom", cat |-> "customer_data",
      data |-> <<"user identity", "chat messages">>] >>

\* The entry appended for a detection.
TrackerEntry(info, signature, source) ==
  [name |-> info.name, category |-> info.cat, data_shared |-> info.data,
   signature |-> signature, source |-> source]

\* The catalogue entries whose signature occurs in text, in catalogue
\* order; text is lower case already.
SigHits(text) ==
  SelectSeq(TRACKER_SIGNATURES,
            LAMBDA info : Contains(LowerStr(info.sig), text))

\* The entry of each catalogue hit, found through source.
Entries(hits, source) ==
  [k \in 1..Len(hits) |-> TrackerEntry(hits[k], hits[k].sig, source)]

\* The elements of s at the positions idx, in that order.
At(s, idx) == [k \in 1..Len(idx) |-> s[idx[k]]]

\* The loop
\*     for c in cands:
\*         if not any(t[key] == c[key] for t in found): found.append(c)
\* A candidate is appended when its key is neither in found as the loop
\* starts nor the key of a candidate before it: that one was appended or
\* skipped, and either way its key is in found from then on.
AppendNew(found, cands, key) ==
  found
    \o At(cands,
          SelectSeq([j \in 1..Len(cands) |-> j],
                    LAMBDA j :
                      /\ \A i \in 1..Len(found) : found[i][key] # cands[j][key]
                      /\ \A k \in 1..(j - 1) : cands[k][key] # cands[j][key]))

\* Check 1: every catalogue signature that occurs in the lower-cased body
\* is appended, in catalogue order, whatever found already holds.
Check1(html_lower, found) == found \o Entries(SigHits(html_lower), "html")

\* The entry of each function call that occurs in the body.
CallEntries(hits) ==
  [k \in 1..Len(hits) |->
     TrackerEntry(hits[k], Strip(hits[k].sig, "(.'\""), "inline_script")]

\* Check 2: the function calls that occur in the body as it is spelled,
\* for the names found does not hold yet.
Check2(html, found) ==
  AppendNew(found,
            CallEntries(SelectSeq(tracker_functions,
                                  LAMBDA info : Contains(info.sig, html))),
            "name")

\* The catalogue hits on the src of each tag, tag after tag.
RECURSIVE SrcEntries(_, _)
SrcEntries(tags, source) ==
  IF Len(tags) = 0 THEN << >>
  ELSE Entries(SigHits(LowerStr(Head(tags).src)), source)
         \o SrcEntries(Tail(tags), source)

\* soup.find_all(tag, src=True)
WithSrc(soup, tag) ==
  SelectSeq(soup, LAMBDA e : e.tag = tag /\ "src" \in DOMAIN e)

\* Checks 3 and 4: the catalogue against the src of every tag, for the
\* names found does not hold yet.
CheckTags(tags, source, found) ==
  AppendNew(found, SrcEntries(tags, source), "name")

\* The final loop with nothing dropped.
DedupeByName_KeepAll(found) ==
  found

\* The final loop: the first entry of each name, in order.
DedupeByName(found) ==
  AppendNew(<< >>, found, "name")

detect_trackers(html, soup) ==
  DedupeByName(
    CheckTags(WithSrc(soup, "img"), "pixel_img",
      CheckTags(WithSrc(soup, "script"), "script_src",
        Check2(html,
          Check1(LowerStr(html), << >>)))))

(***************************************************************************)
(* detect_third_party_scripts                                              *)
(***************************************************************************)
\* src of a script tag, with a scheme when it starts with "//".
FullSrc(src) == IF StartsWith(src, "//") THEN "https:" \o src ELSE src

\* netloc.replace("www.", "")
DomainOf(src) == Replace(NetLoc(src), "www.", "")

\* The third-party test of lines 345 to 348 and 359 to 362.
ThirdParty(src, own_domain) ==
  /\ StartsWith(src, "http")
  /\ ~Contains(own_domain, DomainOf(src))
  /\ DomainOf(src) # ""

\* The entry of each script tag that passes the test.
ScriptEntries(srcs) ==
  [k \in 1..Len(srcs) |->
     [domain |-> DomainOf(srcs[k]), src |-> Slice(srcs[k], 150)]]

\* The entry of each link tag that passes the test.
LinkEntries(hrefs) ==
  [k \in 1..Len(hrefs) |->
     [domain |-> DomainOf(hrefs[k]), src |-> hrefs[k], type |-> "preconnect"]]

\* The src of every script tag that has one.
ScriptSrcs(soup) ==
  [k \in 1..Len(WithSrc(soup, "script")) |->
     FullSrc(WithSrc(soup, "script")[k].src)]

\* The href of every link tag that announces a connection.
LinkHrefs(soup) ==
  LET links == SelectSeq(soup, LAMBDA e :
                 /\ e.tag = "link"
                 /\ "rel" \in DOMAIN e
                 /\ \E r \in Range(e.rel) : r \in {"preconnect", "dns-prefetch"})
  IN  [k \in 1..Len(links) |-> Get(links[k], "href", "")]

detect_third_party_scripts(soup, own_domain) ==
  AppendNew(
    AppendNew(<< >>,
              ScriptEntries(SelectSeq(ScriptSrcs(soup),
                                      LAMBDA src : ThirdParty(src, own_domain))),
              "domain"),
    LinkEntries(SelectSeq(LinkHrefs(soup),
                          LAMBDA href : ThirdParty(href, own_domain))),
    "domain")

\* The catalogue hits on the domain of each third-party script.
RECURSIVE DomainEntries(_)
DomainEntries(third_party_scripts) ==
  IF Len(third_party_scripts) = 0 THEN << >>
  ELSE Entries(SigHits(LowerStr(Head(third_party_scripts).domain)),
               "script_src")
         \o DomainEntries(Tail(third_party_scripts))

\* The cross-reference of crawl_website: the catalogue against the domain
\* of each third-party script, for the names not found yet.
CrossReference(third_party_scripts, trackers_found) ==
  AppendNew(trackers_found, DomainEntries(third_party_scripts), "name")

(***************************************************************************)
(* detect_forms                                                            *)
(***************************************************************************)
\* inp.get("type", "text").lower()
InputType(inp) == LowerStr(Get(inp, "type", "text"))

\* The field recorded for one input.
Field(inp) ==
  [name |-> Slice(Get(inp, "name",
                      Get(inp, "id", Get(inp, "placeholder", "unknown"))),
                  50),
   type |-> InputType(inp),
   required |-> \/ "required" \in DOMAIN inp
                \/ Get(inp, "aria_required", None) = "true"]

\* The fields of one form: its inputs but those of the skipped types.
FormFields(inputs) ==
  LET kept == SelectSeq(inputs, LAMBDA inp :
                InputType(inp) \notin {"hidden", "submit", "button", "csrf",
                                       "token"})
  IN  [k \in 1..Len(kept) |-> Field(kept[k])]

\* The forms that have a field.
FormsOf(tags) ==
  LET kept == SelectSeq(tags, LAMBDA t : Len(FormFields(t.inputs)) > 0)
  IN  [k \in 1..Len(kept) |->
         [action |-> Slice(Get(kept[k], "action", "self"), 100),
          method |-> UpperStr(Get(kept[k], "method", "GET")),
          fields |-> FormFields(kept[k].inputs)]]

detect_forms(soup) == FormsOf(FindAll(soup, "form"))

(***************************************************************************)
(* detect_data_collection                                                  *)
(***************************************************************************)
checks ==
  << <<"geolocation", "navigator.geolocation",
       "Geolocation API detected - collecting user location">>,
     <<"geolocation", "getCurrentPosition",
       "GPS location tracking code detected">>,
     <<"device_fingerprint", "fingerprint",
       "Device fingerprinting code detected">>,
     <<"device_fingerprint", "canvas.toDataURL",
       "Canvas fingerprinting technique detected">>,
     <<"local_storage", "localStorage.setItem",
       "Storing data in browser localStorage">>,
     <<"session_recording", "mouseflow",
       "Session recording tool detected (Mouseflow)">>,
     <<"session_recording", "hotjar",
       "Session recording tool detected (Hotjar)">>,
     <<"session_recording", "fullstory",
       "Session recording tool detected (FullStory)">>,
     <<"session_recording", "clarity.ms",
       "Session recording tool detected (Microsoft Clarity)">>,
     <<"push_notifications", "PushManager",
       "Push notification subscription detected">>,
     <<"camera_microphone", "getUserMedia",
       "Camera/microphone access code detected">>,
     <<"clipboard", "clipboard.readText",
       "Clipboard reading code detected">>,
     <<"webrtc", "RTCPeerConnection",
       "WebRTC detected - can expose real IP behind VPN">>,
     <<"battery", "navigator.getBattery",
       "Battery status API detected">>,
     <<"bluetooth", "navigator.bluetooth",
       "Bluetooth API access detected">> >>

SignalsOf(hits) ==
  [k \in 1..Len(hits) |->
     [category |-> hits[k][1], signal |-> hits[k][2],
      description |-> hits[k][3]]]

detect_data_collection(soup, html) ==
  SignalsOf(SelectSeq(checks,
                      LAMBDA c : Contains(LowerStr(c[2]), LowerStr(html))))

(***************************************************************************)
(* detect_consent_banner                                                   *)
(***************************************************************************)
consent_providers ==
  << <<"onetrust", "OneTrust">>, <<"cookiebot", "Cookiebot">>,
     <<"trustarc", "TrustArc">>, <<"cookieconsent", "CookieConsent">>,
     <<"osano", "Osano">>, <<"termly", "Termly">>, <<"iubenda", "Iubenda">>,
     <<"quantcast", "Quantcast Choice">>, <<"didomi", "Didomi">>,
     <<"usercentrics", "Usercentrics">>,
     <<"consentmanager", "Consent Manager">>,
     <<"sp_consent", "Sourcepoint">> >>

consent_keywords ==
  <<"cookie consent", "cookie banner", "cookie notice", "accept cookies",
    "cookie policy", "we use cookies", "this site uses cookies",
    "consent-banner", "cookie-banner", "cookie-consent", "gdpr-consent",
    "privacy-consent", "cookieNotice">>

reject_keywords ==
  <<"reject all", "decline all", "deny all", "refuse all", "reject cookies",
    "decline cookies", "opt out", "reject-all", "decline-all">>

granular_keywords ==
  <<"manage preferences", "cookie preferences", "cookie settings",
    "customize cookies", "manage cookies", "cookie-settings",
    "manage-preferences", "privacy preferences">>

inline_trackers ==
  <<"gtag(", "fbq(", "ttq.", "_gaq.", "ga('create", "ga(\"create",
    "analytics.js", "gtm.js">>

\* for kw in kws: if kw.lower() in text: ...; break
AnyLowered(kws, text) ==
  \E i \in 1..Len(kws) : Contains(LowerStr(kws[i]), text)

\* The banner once the html has been searched.
BannerFrom(providers, by_keyword, has_reject, has_granular, loads) ==
  LET detected == providers # {} \/ by_keyword
      provider ==
        IF providers = {} THEN None
        ELSE consent_providers[CHOOSE i \in providers :
                                 \A j \in providers : i <= j][2]
  IN  [detected |-> detected,
       has_reject |-> has_reject,
       has_granular |-> has_granular,
       loads_before_consent |-> loads,
       provider |-> provider,
       issues |->
         (IF ~detected THEN <<"No cookie consent banner detected">>
          ELSE (IF ~has_reject
                  THEN <<"No 'Reject All' option - GDPR requires equal prominence for rejection">>
                  ELSE << >>)
               \o (IF ~has_granular
                     THEN <<"No granular cookie category controls detected">>
                     ELSE << >>))
         \o (IF loads
               THEN <<"Tracking scripts load before user consent is given">>
               ELSE << >>)]

ConsentOn(html, html_lower) ==
  BannerFrom({i \in 1..Len(consent_providers) :
                Contains(consent_providers[i][1], html_lower)},
             AnyLowered(consent_keywords, html_lower),
             AnyLowered(reject_keywords, html_lower),
             AnyLowered(granular_keywords, html_lower),
             \E i \in 1..Len(inline_trackers) :
               Contains(inline_trackers[i], html))

detect_consent_banner(soup, html) == ConsentOn(html, LowerStr(html))

(***************************************************************************)
(* find_privacy_policy_link and classify_cookie                            *)
(***************************************************************************)
pp_patterns ==
  <<"privacy policy", "privacy notice", "privacy statement", "data policy",
    "privacy">>

RECURSIVE FirstPolicyLink(_, _, _)
FirstPolicyLink(links, base_url, k) ==
  IF k > Len(links) THEN ""
  ELSE IF \/ \E i \in 1..Len(pp_patterns) :
               Contains(pp_patterns[i], LowerStr(links[k].text))
          \/ Contains("privacy", LowerStr(links[k].href))
         THEN (IF StartsWith(links[k].href, "/")
                 THEN UrlJoin(base_url, links[k].href)
               ELSE IF ~StartsWith(links[k].href, "http")
                 THEN UrlJoin(base_url, links[k].href)
               ELSE links[k].href)
  ELSE FirstPolicyLink(links, base_url, k + 1)

find_privacy_policy_link(soup, base_url) ==
  FirstPolicyLink(SelectSeq(soup,
                            LAMBDA e : e.tag = "a" /\ "href" \in DOMAIN e),
                  base_url, 1)

classify_cookie(name) ==
  LET name_lower == LowerStr(name)
      advertising ==
        <<"_fbp", "_fbc", "fr", "_gcl", "IDE", "test_cookie", "_uetsid",
          "_uetvid", "NID", "MUID", "_pin_unauth", "li_sugr", "_tt_", "ads",
          "_scid", "personalization_id">>
      analytics ==
        <<"_ga", "_gid", "_gat", "__utma", "__utmb", "__utmc", "__utmz",
          "_hjid", "_hjSession", "mp_", "amplitude", "ajs_", "_clck",
          "_clsk", "ab.", "optimizely">>
      essential ==
        <<"csrf", "session", "PHPSESSID", "JSESSIONID", "connect.sid",
          "__stripe", "cart", "checkout", "auth", "token", "sid",
          "logged_in", "secure">>
  IN  IF AnyLowered(advertising, name_lower) THEN "advertising"
      ELSE IF AnyLowered(analytics, name_lower) THEN "analytics"
      ELSE IF AnyLowered(essential, name_lower) THEN "essential"
      ELSE "unknown"

(***************************************************************************)
(* crawl_website: what it computes between two requests.                   *)
(***************************************************************************)
\* CrawlResult(url=url)
CrawlResult(url) ==
  [url |-> url, domain |-> "", company_name |-> "", page_title |-> "",
   trackers_found |-> << >>, cookies_detected |-> << >>,
   forms_detected |-> << >>, consent_banner |-> << >>,
   privacy_policy_url |-> "", privacy_policy_text |-> EmptyText,
   third_party_scripts |-> << >>, data_collection_signals |-> << >>,
   meta_tags |-> << >>, errors |-> << >>]

\* Lines 73 to 79: the record before the first request.
Prepared(url) ==
  LET full   == IF ~StartsWith(url, "http") THEN "https://" \o url ELSE url
      domain == Replace(NetLoc(full), "www.", "")
  IN  [CrawlResult(url) EXCEPT
         !.url = full,
         !.domain = domain,
         !.company_name = Capitalize(SplitFirst(domain, "."))]

COMMON_POLICY_PATHS ==
  <<"/privacy", "/privacy-policy", "/legal/privacy-policy", "/legal/privacy",
    "/privacy/policy", "/about/privacy", "/policies/privacy", "/en/privacy",
    "/legal", "/terms/privacy">>

extended_paths(domain) ==
  COMMON_POLICY_PATHS
    \o <<"/en-us/privacy", "/en-gb/privacy", "/us/legal/privacy",
         "/help/privacy", "/info/privacy", "/pages/privacy", "/privacy.html",
         "/site/privacy", "/" \o SplitFirst(domain, ".") \o "/privacy">>

\* The list of line 206 with one path more.
signup_paths_Six ==
  <<"/signup", "/register", "/join", "/account/login", "/login", "/sign-in">>

signup_paths == <<"/signup", "/register", "/join", "/account/login", "/login">>

\* f"{parsed.scheme}://{parsed.netloc}"
BaseUrl(url) == Scheme(url) \o "://" \o NetLoc(url)

\* Lines 95 to 100: the cookies of the client's jar.
JarCookies(jar) ==
  [k \in 1..Len(jar) |->
     [name |-> jar[k][1],
      value |-> IF Len(jar[k][2]) > 50 THEN Slice(jar[k][2], 50) \o "..."
                ELSE jar[k][2],
      type |-> classify_cookie(jar[k][1])]]

\* header_val.split("=")[0].strip()
HeaderName(header_val) == Strip(SplitFirst(header_val, "="), " ")

\* Lines 103 to 110: the Set-Cookie headers that name a cookie.
HeaderCookies(headers) ==
  LET named == SelectSeq(headers, LAMBDA h : HeaderName(h) # "")
  IN  [k \in 1..Len(named) |->
         [name |-> HeaderName(named[k]), value |-> "(from header)",
          type |-> classify_cookie(HeaderName(named[k]))]]

\* title_tag.get_text(strip=True) if title_tag else result.company_name
PageTitle(soup, company_name) ==
  IF Len(FindAll(soup, "title")) > 0
    THEN Strip(FindAll(soup, "title")[1].text, " ")
    ELSE company_name

\* What the detectors return on one page: html is the body of the response
\* and soup the document parsed from it.
Detected(html, soup) ==
  [trackers |-> detect_trackers(html, soup),
   forms |-> detect_forms(soup),
   signals |-> detect_data_collection(soup, html),
   consent |-> detect_consent_banner(soup, html)]

\* Lines 92 to 148: the record once the primary response has been read;
\* found is what the detectors returned on its page.
Extracted(result, resp, soup, found) ==
  LET third_party == detect_third_party_scripts(soup, result.domain)
  IN  [result EXCEPT
         !.cookies_detected =
            AppendNew(result.cookies_detected \o JarCookies(resp.cookies),
                      HeaderCookies(resp.set_cookie), "name"),
         !.page_title = PageTitle(soup, result.company_name),
         !.trackers_found = CrossReference(third_party, found.trackers),
         !.third_party_scripts = third_party,
         !.forms_detected = found.forms,
         !.data_collection_signals = found.signals,
         !.consent_banner = found.consent,
         !.privacy_policy_url = find_privacy_policy_link(soup, result.url)]

(***************************************************************************)
(* The policy page.  Its document is a sequence of sections: a tag, the    *)
(* text inside it and, for a div, its class.  Sections are not nested.     *)
(***************************************************************************)
\* Two texts with one separator character between them.
JoinTexts(a, b) ==
  IF TextLen(a) = 0 THEN b
  ELSE IF TextLen(b) = 0 THEN a
  ELSE [frags |-> a.frags \o b.frags,
        filler |-> a.filler + b.filler + 1
                     + Max(0, Len(a.frags) - 1) + Max(0, Len(b.frags) - 1)
                     - Max(0, Len(a.frags) + Len(b.frags) - 1),
        dotted |-> a.dotted + b.dotted]

RECURSIVE JoinAll(_)
JoinAll(texts) ==
  IF Len(texts) = 0 THEN EmptyText
  ELSE JoinTexts(Head(texts), JoinAll(Tail(texts)))

\* The fragments that fit in the first n characters.
RECURSIVE TakeFrags(_, _)
TakeFrags(frags, n) ==
  IF Len(frags) = 0 \/ n <= 0 THEN << >>
  ELSE IF Len(Head(frags)) >= n THEN <<SubSeq(Head(frags), 1, n)>>
  ELSE <<Head(frags)>> \o TakeFrags(Tail(frags), n - Len(Head(frags)) - 1)

\* text[:n], the fragments standing before the filler and the filler
\* before the dotted capitals.
Truncate(text, n) ==
  IF TextLen(text) <= n THEN text
  ELSE LET frags == TakeFrags(text.frags, n)
           used  == SumLen(frags) + Max(0, Len(frags) - 1)
           fill  == Min(text.filler, n - used)
       IN  [frags |-> frags, filler |-> fill,
            dotted |-> Min(text.dotted, n - used - fill)]

\* pp_resp.text.lower(), as far as words go: the text of every section.
RawText(doc) == JoinAll([i \in 1..Len(doc) |-> doc[i].text])

\* The test of line 171 answering that every body is a privacy page.
LooksLikePolicy_Any(doc) ==
  TRUE

\* Line 171: the probe's test on the body of a candidate.
LooksLikePolicy(doc) ==
  AnyInText(<<"privacy policy", "privacy notice", "personal data",
              "personal information", "data protection", "we collect">>,
            LowerText(RawText(doc)))

\* Lines 183 and 184: the sections left after decompose().
Decomposed(doc) ==
  SelectSeq(doc, LAMBDA s : s.tag \notin {"script", "style", "nav", "header",
                                          "footer", "aside", "noscript"})

\* Line 186: the main content area, when there is one.
MainOf(sections) ==
  LET mains    == SelectSeq(sections, LAMBDA s : s.tag = "main")
      articles == SelectSeq(sections, LAMBDA s : s.tag = "article")
      roles    == SelectSeq(sections, LAMBDA s : Get(s, "role", "") = "main")
      divs     == SelectSeq(sections, LAMBDA s :
                    /\ s.tag = "div"
                    /\ \E kw \in {"content", "body", "main", "policy", "privacy"} :
                         Contains(kw, LowerStr(Get(s, "class", ""))))
  IN  mains \o articles \o roles \o divs

\* Lines 182 to 190: the text read from the policy page.
PolicyTextOf(doc) ==
  IF Len(MainOf(Decomposed(doc))) > 0
    THEN MainOf(Decomposed(doc))[1].text
    ELSE RawText(Decomposed(doc))

\* Lines 192 to 198: what the record keeps of that text.
PolicyKept(result, text) ==
  IF /\ TextLen(text) > 300
     /\ AnyInText(<<"privacy", "personal data", "we collect", "information">>,
                  LowerText(text))
    THEN [result EXCEPT !.privacy_policy_text = Truncate(text, 15000)]
  ELSE IF TextLen(text) > 200
    THEN [result EXCEPT
            !.privacy_policy_text = Truncate(text, 15000),
            !.errors = Append(@, "Privacy policy page found but text may be incomplete (JS-rendered site)")]
  ELSE [result EXCEPT
          !.errors = Append(@, "Privacy policy URL found but page contained very little readable text - likely requires JavaScript to render")]

(***************************************************************************)
(* The auxiliary page.                                                     *)
(***************************************************************************)
\* The loop of lines 215 to 218 without the test on the name.
MergeTrackers_All(extra_trackers, trackers_found) ==
  trackers_found
    \o [k \in 1..Len(extra_trackers) |->
          [extra_trackers[k] EXCEPT !.source = "signup_page"]]

\* Lines 215 to 218: the trackers of the page whose name is new, marked.
MergeTrackers(extra_trackers, trackers_found) ==
  AppendNew(trackers_found,
            [k \in 1..Len(extra_trackers) |->
               [extra_trackers[k] EXCEPT !.source = "signup_page"]],
            "name")

\* Lines 227 to 229: the signals of the page whose signature is new.
MergeSignals(extra_signals, signals) ==
  AppendNew(signals, extra_signals, "signal")

\* Lines 220 to 224: the forms of the page, marked with its path.
MarkedForms(extra_forms, spath) ==
  [i \in 1..Len(extra_forms) |->
     [name \in DOMAIN extra_forms[i] \cup {"source"} |->
        IF name = "source" THEN spath ELSE extra_forms[i][name]]]

\* Lines 212 to 229: the record with the auxiliary page merged in; found is
\* what the detectors returned on that page.
Merged(result, found, spath) ==
  [result EXCEPT
     !.trackers_found = MergeTrackers(found.trackers, @),
     !.forms_detected = @ \o MarkedForms(found.forms, spath),
     !.data_collection_signals = MergeSignals(found.signals, @)]

(***************************************************************************)
(* State.                                                                  *)
(***************************************************************************)
VARIABLES
  ENFORCEMENT_CASES,  \* the module-level list of knowledge_base.py
  fc_args,            \* arguments of the pending find_relevant_cases call
  fc_result,          \* the list it returned
  fc_pc,              \* "idle", "call" or "returned"
  hash_seed,          \* the string-hash seed of the running interpreter
  crawl_data,         \* the evidence record handed to analyze_gaps
  report,             \* the report analyze_gaps returned
  ag_pc,              \* "idle", "call" or "returned"
  prev_data,          \* the evidence record of the call before this one
  prev_report,        \* and the report that call returned
  result,             \* the CrawlResult of the running crawl_website call
  cw_pc,              \* the request crawl_website awaits, or "idle", "returned"
  cw_i,               \* the position in the list of paths being tried
  requests,           \* the URLs requested so far, in order
  served,             \* the pages the site answered with
  event_loop          \* the run_scan call that runs and the suspended ones

casesVars == <<fc_args, fc_result, fc_pc>>

analyzerVars ==
  <<hash_seed, crawl_data, report, ag_pc, prev_data, prev_report>>

crawlVars == <<result, cw_pc, cw_i, requests, served>>

vars == <<ENFORCEMENT_CASES, casesVars, analyzerVars, crawlVars, event_loop>>

(***************************************************************************)
(* The state of a component no call is pending on.                         *)
(***************************************************************************)
NoReport == << >>

NoArgs == [tags |-> << >>, limit |-> 0, has_limit |-> FALSE]

CasesIdle ==
  /\ fc_args = NoArgs
  /\ fc_result = << >>
  /\ fc_pc = "idle"

AnalyzerIdle ==
  /\ hash_seed = 0
  /\ crawl_data = << >>
  /\ report = NoReport
  /\ ag_pc = "idle"
  /\ prev_data = << >>
  /\ prev_report = NoReport

\* No answer to a request for a policy candidate is being handled.
NoAnswer == [status |-> 0, doc |-> << >>]

NothingServed ==
  [got_primary |-> FALSE, primary |-> << >>, status |-> 0, failed |-> "",
   got_aux |-> FALSE, aux |-> << >>, probe |-> NoAnswer, aux_status |-> 0,
   policy |-> NoAnswer]

\* One run_scan call, and no other suspended at an await.
NoLoop == [running |-> 1, suspended |-> << >>]

LoopIdle == event_loop = NoLoop

CrawlerIdle ==
  /\ result = CrawlResult("")
  /\ cw_pc = "idle"
  /\ cw_i = 0
  /\ requests = << >>
  /\ served = NothingServed

(***************************************************************************)
(* Evidence records handed to analyze_gaps.                                *)
(***************************************************************************)
MaxTrackers == 2
MaxSignals == 2

\* The elements of pool at the positions in I, in pool order.
RECURSIVE PickFrom(_, _, _)
PickFrom(pool, I, i) ==
  IF i > Len(pool) THEN << >>
  ELSE (IF i \in I THEN <<pool[i]>> ELSE << >>) \o PickFrom(pool, I, i + 1)

\* The sublists of pool with at most n elements.
SubLists(pool, n) ==
  {PickFrom(pool, I, 1) :
     I \in {J \in SUBSET (1..Len(pool)) : Cardinality(J) <= n}}

CatalogueEntry(sig) ==
  TRACKER_SIGNATURES[CHOOSE i \in 1..Len(TRACKER_SIGNATURES) :
                       TRACKER_SIGNATURES[i].sig = sig]

\* The tracker entry the crawler builds for a catalogue signature.
Tracker(sig, source) ==
  LET info == CatalogueEntry(sig)
  IN  [name |-> info.name, category |-> info.cat, data_shared |-> info.data,
       signature |-> sig, source |-> source]

\* The last entry is one a caller wrote by hand: no signature, no source.
TrackerPool ==
  << Tracker("googlesyndication.com", "html"),
     Tracker("facebook.net", "html"),
     Tracker("criteo.com", "script_src"),
     Tracker("hotjar.com", "html"),
     [name |-> "Acme Ads", category |-> "advertising",
      data_shared |-> <<"clicks">>] >>

SignalPool ==
  << [category |-> "geolocation", signal |-> "navigator.geolocation",
      description |-> "Geolocation API detected - collecting user location"],
     [category |-> "session_recording", signal |-> "hotjar",
      description |-> "Session recording tool detected (Hotjar)"],
     [category |-> "device_fingerprint", signal |-> "fingerprint",
      description |-> "Device fingerprinting code detected"] >>

ConsentPool ==
  { << >>,
    [detected |-> TRUE, has_reject |-> TRUE, has_granular |-> TRUE,
     loads_before_consent |-> FALSE, provider |-> "OneTrust",
     issues |-> << >>],
    [detected |-> FALSE, has_reject |-> FALSE, has_granular |-> FALSE,
     loads_before_consent |-> FALSE, provider |-> None,
     issues |-> <<"No cookie consent banner detected">>],
    [detected |-> TRUE, has_reject |-> FALSE, has_granular |-> FALSE,
     loads_before_consent |-> TRUE, provider |-> "Cookiebot",
     issues |-> <<"No 'Reject All' option - GDPR requires equal prominence for rejection",
                  "No granular cookie category controls detected",
                  "Tracking scripts load before user consent is given">>] }

FormsPool ==
  { << >>,
    << [action |-> "/signup", method |-> "POST",
        fields |-> << [name |-> "email", type |-> "email",
                       required |-> TRUE],
                      [name |-> "age", type |-> "number",
                       required |-> FALSE] >>] >>,
    << [action |-> "/signup", method |-> "POST",
        fields |-> << [name |-> "date_of_birth", type |-> "date",
                       required |-> TRUE],
                      [name |-> "email", type |-> "email",
                       required |-> TRUE] >>],
       [action |-> "self", method |-> "GET",
        fields |-> << [name |-> "Phone", type |-> "tel",
                       required |-> TRUE] >>] >>,
    << [action |-> "/register", method |-> "POST",
        fields |-> << [name |-> "phone", type |-> "tel",
                       required |-> TRUE],
                      [name |-> "birth_date", type |-> "date",
                       required |-> TRUE],
                      [name |-> "street_address", type |-> "text",
                       required |-> TRUE],
                      [name |-> "zip", type |-> "text",
                       required |-> TRUE],
                      [name |-> "gender", type |-> "text",
                       required |-> TRUE],
                      [name |-> "date_of_birth", type |-> "date",
                       required |-> TRUE] >>] >> }

FragRetention == "We retain data for 90 days"

FragVague == "We keep data as long as necessary"

FragRights ==
  "You have the right to access, the right to erasure, data portability, the right to object; we honour Do Not Sell"

FragSomeRights ==
  "You may request a copy, request deletion and export your data"

\* Four of the five rights: nothing about the sale of data.
FragFourRights ==
  "You have the right to access, the right to erasure, data portability and the right to object"

\* Two of the five rights.
FragTwoRights == "You may request a copy and request deletion"

FragChildren == "Not directed at children under 13"

FragTransfer == "Data may be transferred to the United States"

FragLocation == "We collect location data"

FragRecording == "We use Hotjar for session recording"

FragPartners == "Our advertising partners include Google, Meta and Criteo"

FragMinim == "We follow data minimization"

\* Policy texts: empty; short but full of keywords; exactly 200 filler
\* characters; 201 of them; 150 capital dotted I; and five long ones.
PolicyPool ==
  { EmptyText,
    [frags |-> <<FragSomeRights, FragChildren, FragLocation, FragRecording>>,
     filler |-> 20, dotted |-> 0],
    [frags |-> << >>, filler |-> 200, dotted |-> 0],
    [frags |-> << >>, filler |-> 201, dotted |-> 0],
    [frags |-> << >>, filler |-> 0, dotted |-> 150],
    [frags |-> <<FragRetention, FragRights, FragChildren, FragTransfer,
                 FragLocation, FragRecording, FragPartners>>,
     filler |-> 300, dotted |-> 0],
    [frags |-> <<FragRetention, FragFourRights, FragTransfer, FragLocation,
                 FragRecording, FragPartners>>,
     filler |-> 300, dotted |-> 0],
    [frags |-> <<FragRetention, FragTwoRights, FragChildren>>,
     filler |-> 300, dotted |-> 0],
    [frags |-> <<FragVague, FragSomeRights, FragChildren>>,
     filler |-> 300, dotted |-> 0],
    [frags |-> <<FragRetention, FragVague, FragRights, FragChildren,
                 FragMinim>>,
     filler |-> 300, dotted |-> 0] }

\* The record crawl_website's to_dict() or run_scan builds.
Evidence(trackers, signals, consent, forms, policy) ==
  [trackers_found |-> trackers,
   forms_detected |-> forms,
   consent_banner |-> consent,
   data_collection_signals |-> signals,
   privacy_policy_text |-> policy]

\* The same record without its privacy_policy_text key.
EvidenceNoText(trackers, signals, consent, forms) ==
  [trackers_found |-> trackers,
   forms_detected |-> forms,
   consent_banner |-> consent,
   data_collection_signals |-> signals]

\* The policy texts, and the absence of the key.
Absent == [absent |-> TRUE]

EvidenceWith(t, s, c, f, p) ==
  IF p = Absent THEN EvidenceNoText(t, s, c, f) ELSE Evidence(t, s, c, f, p)

HashSeeds == {0, 1}

InitAnalyze ==
  /\ ENFORCEMENT_CASES = CasesTable
  /\ CasesIdle
  /\ CrawlerIdle
  /\ LoopIdle
  /\ hash_seed \in HashSeeds
  /\ \E t \in SubLists(TrackerPool, MaxTrackers),
        s \in SubLists(SignalPool, MaxSignals),
        c \in ConsentPool, f \in FormsPool,
        p \in PolicyPool \cup {Absent} :
       crawl_data = EvidenceWith(t, s, c, f, p)
  /\ report = NoReport
  /\ ag_pc = "call"
  /\ prev_data = << >>
  /\ prev_report = NoReport

\* gap_report = analyze_gaps(crawl_data)
Analyze ==
  /\ ag_pc = "call"
  /\ report' = analyze_gaps(crawl_data, hash_seed, ENFORCEMENT_CASES)
  /\ ag_pc' = "returned"
  /\ UNCHANGED <<ENFORCEMENT_CASES, event_loop, crawlVars, casesVars, hash_seed, crawl_data,
                 prev_data, prev_report>>

NextAnalyze == Analyze

\* Tags a query is drawn from: the tags the analyzer asks for, and one
\* ("recording") that no case carries.
QueryTags ==
  {"advertising", "disclosure", "consent", "cookies", "location",
   "retention", "deletion", "cross_border", "data_transfer", "children",
   "recording"}

InitCases ==
  /\ ENFORCEMENT_CASES = CasesTable
  /\ AnalyzerIdle
  /\ CrawlerIdle
  /\ LoopIdle
  /\ fc_args \in [tags : SeqsUpTo(QueryTags, MaxTags),
                  limit : 0..MaxLimit,
                  has_limit : BOOLEAN]
  /\ fc_args.has_limit \/ fc_args.limit = 0
  /\ fc_result = << >>
  /\ fc_pc = "call"

\* find_relevant_cases(tags, limit)
CallWithLimit ==
  /\ fc_pc = "call"
  /\ fc_args.has_limit
  /\ fc_result' = find_relevant_cases(fc_args.tags, fc_args.limit,
                                      ENFORCEMENT_CASES)
  /\ fc_pc' = "returned"
  /\ UNCHANGED <<ENFORCEMENT_CASES, event_loop, crawlVars, fc_args, analyzerVars>>

\* find_relevant_cases(tags): limit takes its default.
CallDefault ==
  /\ fc_pc = "call"
  /\ ~fc_args.has_limit
  /\ fc_result' = find_relevant_cases(fc_args.tags, DefaultLimit,
                                      ENFORCEMENT_CASES)
  /\ fc_pc' = "returned"
  /\ UNCHANGED <<ENFORCEMENT_CASES, event_loop, crawlVars, fc_args, analyzerVars>>

NextCases == CallWithLimit \/ CallDefault


(***************************************************************************)
(* Repeated scans, as run_scan serves them one after the other: the same   *)
(* evidence analysed again, in the same process or after a restart of the  *)
(* server, or analysed with a policy text pasted by the user.  prev_data   *)
(* and prev_report remember the call before the current one.               *)
(***************************************************************************)
InitRepeat ==
  /\ ENFORCEMENT_CASES = CasesTable
  /\ CasesIdle
  /\ CrawlerIdle
  /\ LoopIdle
  /\ hash_seed \in HashSeeds
  /\ \E t \in SubLists(TrackerPool, MaxTrackers),
        p \in PolicyPool \cup {Absent} :
       crawl_data = EvidenceWith(t, << >>, << >>, << >>, p)
  /\ report = NoReport
  /\ ag_pc = "call"
  /\ prev_data = << >>
  /\ prev_report = NoReport

\* The same request arrives again: same evidence, same process.
Resubmit ==
  /\ ag_pc = "returned"
  /\ prev_data' = crawl_data
  /\ prev_report' = report
  /\ report' = NoReport
  /\ ag_pc' = "call"
  /\ UNCHANGED <<ENFORCEMENT_CASES, event_loop, crawlVars, casesVars, hash_seed, crawl_data>>

\* The server process is restarted between two requests: the new
\* interpreter draws its own hash seed.
Restart ==
  /\ ag_pc = "returned"
  /\ hash_seed' \in HashSeeds \ {hash_seed}
  /\ UNCHANGED <<ENFORCEMENT_CASES, event_loop, crawlVars, casesVars, crawl_data, report, ag_pc,
                 prev_data, prev_report>>

\* The request arrives again with req.policy_text set: the pasted text
\* replaces the crawled one.
PastePolicy ==
  /\ ag_pc = "returned"
  /\ \E p \in PolicyPool \ {EmptyText} :
       crawl_data' = Evidence(crawl_data.trackers_found,
                              crawl_data.data_collection_signals,
                              crawl_data.consent_banner,
                              crawl_data.forms_detected, p)
  /\ prev_data' = crawl_data
  /\ prev_report' = report
  /\ report' = NoReport
  /\ ag_pc' = "call"
  /\ UNCHANGED <<ENFORCEMENT_CASES, event_loop, crawlVars, casesVars, hash_seed>>

NextRepeat == Analyze \/ Resubmit \/ Restart \/ PastePolicy

(***************************************************************************)
(* The sites crawl_website is run against.                                 *)
(***************************************************************************)
MaxElements == 2

UrlPool == {"https://www.shop.example", "https://shop.example/store"}

\* The URLs of the scans that run side by side, by scan.
ScanUrls == <<"https://news.example", "blog.example/home">>

\* The URLs crawl_website is called with: one of the pool, or the URL of
\* the scan that runs when there are several.
Requested ==
  IF event_loop = NoLoop THEN UrlPool ELSE {ScanUrls[event_loop.running]}

\* The crawl is of one of the two small sites.
OnNews == result.domain = "news.example"

OnBlog == result.domain = "blog.example"

ScriptGtm ==
  [tag |-> "script", src |-> "https://www.googletagmanager.com/gtm.js?id=GTM-1"]

ScriptGtmEncoded ==
  [tag |-> "script", src |-> "https://www.googletagmanager.com/gtm.js?id=GTM-1",
   encoded |-> TRUE]

ScriptFbSdk ==
  [tag |-> "script", src |-> "//connect.facebook.net/en_US/fbevents.js"]

InlineFbq == [tag |-> "script", text |-> "fbq('init', '1');"]

PixelFbEncoded ==
  [tag |-> "img", src |-> "https://www.facebook.com/tr?id=1", encoded |-> TRUE]

Mention == [tag |-> "div", text |-> "Powered by segment.io and segment.com"]

PreconnectSegment ==
  [tag |-> "link", rel |-> <<"preconnect">>, href |-> "https://cdn.segment.com",
   encoded |-> TRUE]

ScriptHotjar ==
  [tag |-> "script", src |-> "https://static.hotjar.com/c/hotjar-1.js"]

ScriptOwn == [tag |-> "script", src |-> "https://static.shop.example/app.js"]

InlineGeo ==
  [tag |-> "script", text |-> "navigator.geolocation.getCurrentPosition(cb);"]

Title == [tag |-> "title", text |-> "Shop"]

Banner == [tag |-> "div", text |-> "We use cookies. Reject all"]

ScriptCookiebot ==
  [tag |-> "script", src |-> "https://consent.cookiebot.com/uc.js"]

LinkPolicy == [tag |-> "a", href |-> "/privacy-policy", text |-> "Privacy Policy"]

LinkLegal ==
  [tag |-> "a", href |-> "https://shop.example/legal", text |-> "Data Policy"]

LinkAbout == [tag |-> "a", href |-> "/about", text |-> "About"]

FormSignup ==
  [tag |-> "form", action |-> "/signup", method |-> "post",
   inputs |-> << [tag |-> "input", type |-> "hidden", name |-> "csrf"],
                 [tag |-> "input", type |-> "Email", name |-> "email",
                  required |-> ""],
                 [tag |-> "input", id |-> "date_of_birth",
                  aria_required |-> "true"],
                 [tag |-> "select", placeholder |-> "Country"] >>]

FormSearch ==
  [tag |-> "form",
   inputs |-> << [tag |-> "input", type |-> "submit"] >>]

\* The elements primary pages are made of.
ElementPool ==
  <<ScriptGtm, ScriptGtmEncoded, ScriptFbSdk, InlineFbq, PixelFbEncoded,
    Mention, PreconnectSegment>>

\* The elements auxiliary pages are made of.
AuxElementPool == <<InlineFbq, ScriptHotjar, FormSignup>>

PrimaryPages ==
  SubLists(ElementPool, MaxElements)
    \cup { <<Title, ScriptOwn, InlineGeo, FormSearch, LinkAbout, LinkPolicy>>,
           <<ScriptCookiebot, Banner, ScriptHotjar, LinkLegal>>,
           <<Title, FormSignup, LinkAbout>> }

AuxPages == SubLists(AuxElementPool, MaxElements)

ErrorPage == << [tag |-> "p", text |-> "Not found"] >>

\* What the detectors return on each page of the pools.
DetectedOn ==
  [p \in PrimaryPages \cup AuxPages \cup {ErrorPage} |-> Detected(Html(p), p)]

NoCookies == [cookies |-> << >>, set_cookie |-> << >>]

SomeCookies ==
  [cookies |-> << <<"_ga", "GA1.2.1111111111.2222222222">>,
                  <<"session_id",
                    "0123456789012345678901234567890123456789012345678901234567">> >>,
   set_cookie |-> <<"_ga=GA1.2.1111111111.2222222222; Path=/",
                    " _fbp =fb.1.1; Path=/",
                    "=orphan">>]

Answer(status, page, jar) ==
  [status |-> status, page |-> page, cookies |-> jar.cookies,
   set_cookie |-> jar.set_cookie]

\* The answers to the first request.
PrimaryAnswers ==
  IF OnNews
    THEN {Answer(200, <<ScriptCookiebot, Banner, ScriptHotjar, LinkLegal>>,
                 NoCookies)}
  ELSE IF OnBlog
    THEN {Answer(200, <<Title, FormSignup, LinkAbout>>, SomeCookies)}
  ELSE {Answer(200, p, NoCookies) : p \in PrimaryPages}
         \cup {Answer(200, <<Title, FormSignup, LinkAbout>>, SomeCookies),
               Answer(404, ErrorPage, NoCookies),
               Answer(503, <<ScriptGtm>>, NoCookies)}

\* The exceptions a request can end with; message is str(e).
Failures ==
  { [outcome |-> "connect", message |-> "All connection attempts failed"],
    [outcome |-> "timeout", message |-> ""],
    [outcome |-> "other", message |-> "Exceeded maximum allowed redirects."] }

Words(frags, filler) == [frags |-> frags, filler |-> filler, dotted |-> 0]

\* A policy page with navigation and a main section.
DocFull ==
  << [tag |-> "nav", text |-> Words(<<"Home", "Terms">>, 0)],
     [tag |-> "main",
      text |-> Words(<<"Privacy Policy", FragRetention, FragSomeRights>>, 400)],
     [tag |-> "footer", text |-> Words(<<"Contact us">>, 0)] >>

\* A page a script renders: the markup holds a loader text only.
DocThin ==
  << [tag |-> "script", text |-> Words(<<"load('privacy policy')">>, 0)],
     [tag |-> "div", class |-> "app-root", text |-> Words(<<"Loading">>, 243)] >>

\* A page a script renders, with one sentence in the markup.
DocBare ==
  << [tag |-> "script", text |-> Words(<<"load('privacy notice')">>, 0)],
     [tag |-> "div", class |-> "app-root",
      text |-> Words(<<"Our privacy notice is loading">>, 0)] >>

\* A policy longer than the record keeps.
DocLong ==
  << [tag |-> "div", class |-> "Policy-Body",
      text |-> Words(<<"We collect personal data", FragTransfer>>, 20000)],
     [tag |-> "p", text |-> Words(<<FragChildren>>, 0)] >>

\* The home page, served for paths the site does not know.
DocHome ==
  << [tag |-> "p", text |-> Words(<<"Welcome to the shop">>, 500)] >>

DocNotFound == << [tag |-> "p", text |-> Words(<<"Not found">>, 0)] >>

PolicyDocs == {DocFull, DocThin, DocBare, DocLong}

\* The paths under which the site publishes its policy, and the paths of
\* its sign-up and log-in pages.
PolicyPaths == {"/privacy", "/shop/privacy"}

AuxPaths == {"/signup", "/login"}

\* The answers to a request for a policy candidate.
ProbeAnswers(path) ==
  IF OnNews \/ OnBlog
    THEN IF path = "/privacy-policy"
           THEN {[status |-> 200, doc |-> DocLong]}
           ELSE {[status |-> 404, doc |-> DocNotFound]}
  ELSE {[status |-> 404, doc |-> DocNotFound],
        [status |-> 200, doc |-> DocHome]}
         \cup (IF path \in PolicyPaths
                 THEN {[status |-> 200, doc |-> d] : d \in PolicyDocs}
                        \cup {[status |-> 403, doc |-> DocFull]}
                 ELSE {})

\* The answers to the request for the policy page.
PolicyAnswers ==
  IF OnNews THEN {[status |-> 200, doc |-> DocFull]}
  ELSE IF OnBlog
    THEN {[status |-> 404, doc |-> DocNotFound],
          [status |-> 200, doc |-> DocLong]}
  ELSE {[status |-> 404, doc |-> DocNotFound],
        [status |-> 200, doc |-> DocHome]}
         \cup {[status |-> 200, doc |-> d] : d \in PolicyDocs}

\* The answers to a request for an auxiliary page.
AuxAnswers(path) ==
  IF OnNews \/ OnBlog
    THEN IF path = "/login"
           THEN {Answer(200, <<InlineFbq, ScriptHotjar>>, NoCookies)}
           ELSE {Answer(404, ErrorPage, NoCookies)}
  ELSE {Answer(404, ErrorPage, NoCookies)}
         \cup (IF path \in AuxPaths
                 THEN {Answer(200, p, NoCookies) : p \in AuxPages}
                 ELSE {})

(***************************************************************************)
(* crawl_website, one action for each way a request it awaits can end.     *)
(***************************************************************************)
InitCrawl ==
  /\ ENFORCEMENT_CASES = CasesTable
  /\ CasesIdle
  /\ AnalyzerIdle
  /\ CrawlerIdle
  /\ LoopIdle

\* The next thing crawl_website awaits is the answer to a request for a
\* policy candidate, for the policy page or for an auxiliary page; or it
\* returns.
GoProbe(r, i) ==
  /\ result' = r
  /\ cw_pc' = "probe"
  /\ cw_i' = i
  /\ requests' = Append(requests, BaseUrl(r.url) \o extended_paths(r.domain)[i])

GoPolicy(r) ==
  /\ result' = r
  /\ cw_pc' = "policy"
  /\ cw_i' = 0
  /\ requests' = Append(requests, r.privacy_policy_url)

GoAux(r, i) ==
  /\ result' = r
  /\ cw_pc' = "aux"
  /\ cw_i' = i
  /\ requests' = Append(requests, BaseUrl(r.url) \o signup_paths[i])

Return(r) ==
  /\ result' = r
  /\ cw_pc' = "returned"
  /\ cw_i' = 0
  /\ UNCHANGED requests

\* Lines 146 to 178: with a policy link the policy page is requested,
\* without one the first candidate path.
AfterPrimary(r) ==
  IF r.privacy_policy_url = "" THEN GoProbe(r, 1) ELSE GoPolicy(r)

\* Lines 164 to 178 and 201 to 202: the next candidate, or no policy.
NextProbe ==
  IF cw_i < Len(extended_paths(result.domain))
    THEN GoProbe(result, cw_i + 1)
    ELSE GoAux([result EXCEPT
                  !.errors = Append(@, "Could not automatically locate a privacy policy page. Use Advanced Options to paste the policy text manually.")],
               1)

\* Lines 207 to 232: the next auxiliary path, or the end of the list.
NextAux ==
  IF cw_i < Len(signup_paths) THEN GoAux(result, cw_i + 1) ELSE Return(result)

\* crawl_website(url) is called and sends its first request.
CrawlWebsite ==
  /\ cw_pc = "idle"
  /\ \E url \in Requested :
       /\ result' = Prepared(url)
       /\ requests' = <<Prepared(url).url>>
  /\ cw_pc' = "primary"
  /\ cw_i' = 0
  /\ UNCHANGED <<ENFORCEMENT_CASES, event_loop, casesVars, analyzerVars, served>>

\* The handlers of lines 236 to 241 without the entry they append.
Handled_Silent(r, f) ==
  r

\* The handlers of lines 236 to 241: one entry in errors, by the kind of
\* the exception.
Handled(r, f) ==
  [r EXCEPT
     !.errors =
        Append(@,
          CASE f.outcome = "connect" ->
                 "Could not connect to " \o r.url
                   \o ". The site may be down or blocking our request."
            [] f.outcome = "timeout" ->
                 "Connection to " \o r.url \o " timed out after 20 seconds."
            [] OTHER -> "Crawl error: " \o f.message)]

\* The first request raises: the handlers, then line 243.
PrimaryFails ==
  /\ cw_pc = "primary"
  /\ \E f \in Failures :
       /\ Return(Handled(result, f))
       /\ served' = [served EXCEPT !.failed = f.outcome]
  /\ UNCHANGED <<ENFORCEMENT_CASES, event_loop, casesVars, analyzerVars>>

\* The first request is answered: lines 92 to 178.
PrimaryResponds ==
  /\ cw_pc = "primary"
  /\ \E resp \in PrimaryAnswers :
       /\ AfterPrimary(Extracted(result, resp, resp.page,
                                 DetectedOn[resp.page]))
       /\ served' = [served EXCEPT !.got_primary = TRUE,
                                   !.primary = resp.page,
                                   !.status = resp.status]
  /\ UNCHANGED <<ENFORCEMENT_CASES, event_loop, casesVars, analyzerVars>>

\* A request for a policy candidate raises: lines 174 and 175.
ProbeFails ==
  /\ cw_pc = "probe"
  /\ NextProbe
  /\ served' = [served EXCEPT !.probe = NoAnswer]
  /\ UNCHANGED <<ENFORCEMENT_CASES, event_loop, casesVars, analyzerVars>>

\* A request for a policy candidate is answered: lines 167 to 173.
ProbeResponds ==
  /\ cw_pc = "probe"
  /\ \E pp_test \in ProbeAnswers(extended_paths(result.domain)[cw_i]) :
       /\ IF pp_test.status < 400 /\ LooksLikePolicy(pp_test.doc)
            THEN GoPolicy([result EXCEPT
                             !.privacy_policy_url =
                                BaseUrl(result.url)
                                  \o extended_paths(result.domain)[cw_i]])
            ELSE NextProbe
       /\ served' = [served EXCEPT
                       !.probe = [status |-> pp_test.status,
                                  doc |-> pp_test.doc]]
  /\ UNCHANGED <<ENFORCEMENT_CASES, event_loop, casesVars, analyzerVars>>

\* The request for the policy page raises: lines 199 and 200.
PolicyFails ==
  /\ cw_pc = "policy"
  /\ \E f \in Failures :
       GoAux([result EXCEPT
                !.errors = Append(@, "Could not fetch privacy policy: "
                                       \o f.message)],
             1)
  /\ served' = [served EXCEPT !.probe = NoAnswer]
  /\ UNCHANGED <<ENFORCEMENT_CASES, event_loop, casesVars, analyzerVars>>

\* The request for the policy page is answered: lines 180 to 198.
PolicyResponds ==
  /\ cw_pc = "policy"
  /\ \E pp_resp \in PolicyAnswers :
       /\ IF pp_resp.status < 400
            THEN GoAux(PolicyKept(result, PolicyTextOf(pp_resp.doc)), 1)
            ELSE GoAux(result, 1)
       /\ served' = [served EXCEPT !.probe = NoAnswer, !.policy = pp_resp]
  /\ UNCHANGED <<ENFORCEMENT_CASES, event_loop, casesVars, analyzerVars>>

\* A request for an auxiliary page raises: lines 231 and 232.
AuxFails ==
  /\ cw_pc = "aux"
  /\ NextAux
  /\ served' = [served EXCEPT !.probe = NoAnswer, !.aux_status = 0]
  /\ UNCHANGED <<ENFORCEMENT_CASES, event_loop, casesVars, analyzerVars>>

\* A request for an auxiliary page is answered: lines 210 to 230.
AuxResponds ==
  /\ cw_pc = "aux"
  /\ \E signup_resp \in AuxAnswers(signup_paths[cw_i]) :
       IF signup_resp.status < 400
         THEN /\ Return(Merged(result, DetectedOn[signup_resp.page],
                               signup_paths[cw_i]))
              /\ served' = [served EXCEPT !.got_aux = TRUE,
                                          !.aux = signup_resp.page,
                                          !.probe = NoAnswer,
                                          !.aux_status = signup_resp.status]
         ELSE /\ NextAux
              /\ served' = [served EXCEPT
                              !.probe = NoAnswer,
                              !.aux_status = signup_resp.status]
  /\ UNCHANGED <<ENFORCEMENT_CASES, event_loop, casesVars, analyzerVars>>

NextCrawl ==
  \/ CrawlWebsite
  \/ PrimaryFails
  \/ PrimaryResponds
  \/ ProbeFails
  \/ ProbeResponds
  \/ PolicyFails
  \/ PolicyResponds
  \/ AuxFails
  \/ AuxResponds

(***************************************************************************)
(* run_scan: the crawl, then lines 163 to 186 on the record it returned.   *)
(***************************************************************************)
\* CrawlResult.to_dict(): every field but meta_tags.
to_dict(r) == [k \in DOMAIN r \ {"meta_tags"} |-> r[k]]

\* Line 166: the crawl is taken to have failed completely.
CrawlFailed(r) ==
  /\ Len(r.errors) > 0
  /\ Len(r.trackers_found) = 0
  /\ Len(r.cookies_detected) = 0
  /\ TextLen(r.privacy_policy_text) = 0

\* raise HTTPException(status_code, detail)
HTTPException(status_code, detail) ==
  [status_code |-> status_code, detail |-> detail]

\* The policy texts a request carries in policy_text; None when it has none.
PastedPool ==
  {Absent,
   [frags |-> <<FragRetention, FragRights, FragChildren, FragTransfer,
                FragLocation, FragRecording, FragPartners>>,
    filler |-> 300, dotted |-> 0]}

\* Lines 163 to 167: crawl_website has returned and run_scan raises.
ScanRefused ==
  /\ cw_pc = "returned"
  /\ ag_pc = "idle"
  /\ CrawlFailed(result)
  /\ report' = HTTPException(422, "Could not reach " \o result.url
                                    \o ". Error: " \o result.errors[1])
  /\ ag_pc' = "raised"
  /\ UNCHANGED <<ENFORCEMENT_CASES, event_loop, crawlVars, casesVars, hash_seed, crawl_data,
                 prev_data, prev_report>>

\* Lines 163 to 182: crawl_website has returned and its record, with the
\* policy text of the request in place of its own when the request has
\* one, is what analyze_gaps is called with.
ScanProceeds ==
  /\ cw_pc = "returned"
  /\ ag_pc = "idle"
  /\ ~CrawlFailed(result)
  /\ \E policy_text \in PastedPool :
       crawl_data' =
         IF policy_text = Absent THEN to_dict(result)
         ELSE [to_dict(result) EXCEPT !.privacy_policy_text = policy_text]
  /\ ag_pc' = "call"
  /\ UNCHANGED <<ENFORCEMENT_CASES, event_loop, crawlVars, casesVars, hash_seed, report,
                 prev_data, prev_report>>

InitScan == InitCrawl

NextScan == NextCrawl \/ ScanRefused \/ ScanProceeds \/ Analyze

(***************************************************************************)
(* Several run_scan calls in one process: each is a coroutine with its     *)
(* own locals, and the event loop runs one of them at a time, from one     *)
(* await to the next.                                                      *)
(***************************************************************************)
Scans == 1..Len(ScanUrls)

\* The locals of the run_scan call that runs, crawl_website's included.
Frame ==
  [result |-> result, cw_pc |-> cw_pc, cw_i |-> cw_i, requests |-> requests,
   served |-> served, crawl_data |-> crawl_data, report |-> report,
   ag_pc |-> ag_pc]

\* The locals of a call that has not run yet.
NewFrame ==
  [result |-> CrawlResult(""), cw_pc |-> "idle", cw_i |-> 0,
   requests |-> << >>, served |-> NothingServed, crawl_data |-> << >>,
   report |-> NoReport, ag_pc |-> "idle"]

\* The call is at an await of crawl_website, has not run yet, or is at the
\* await that follows analyze_gaps or has raised: between the last answer
\* to crawl_website and the return of analyze_gaps nothing is awaited.
AtAwait(frame) ==
  \/ frame.cw_pc \in {"idle", "primary", "probe", "policy", "aux"}
  \/ frame.ag_pc \in {"returned", "raised"}

\* The suspended calls once the running one is suspended with the locals
\* of another in place of its own.
Parked_Aliased(loop, frame, to) ==
  [s \in (DOMAIN loop.suspended \ {to}) \cup {loop.running} |->
     loop.suspended[to]]

\* The suspended calls once the running one is suspended and the call to
\* is taken out to run.
Parked(loop, frame, to) ==
  [s \in (DOMAIN loop.suspended \ {to}) \cup {loop.running} |->
     IF s = loop.running THEN frame ELSE loop.suspended[s]]

\* The event loop suspends the running call at its await and resumes
\* another call that has not finished.
Switch ==
  /\ AtAwait(Frame)
  /\ \E to \in DOMAIN event_loop.suspended :
       /\ event_loop.suspended[to].ag_pc \notin {"returned", "raised"}
       /\ event_loop' = [running |-> to,
                         suspended |-> Parked(event_loop, Frame, to)]
       /\ result' = event_loop.suspended[to].result
       /\ cw_pc' = event_loop.suspended[to].cw_pc
       /\ cw_i' = event_loop.suspended[to].cw_i
       /\ requests' = event_loop.suspended[to].requests
       /\ served' = event_loop.suspended[to].served
       /\ crawl_data' = event_loop.suspended[to].crawl_data
       /\ report' = event_loop.suspended[to].report
       /\ ag_pc' = event_loop.suspended[to].ag_pc
  /\ UNCHANGED <<ENFORCEMENT_CASES, casesVars, hash_seed, prev_data,
                 prev_report>>

\* Two requests have arrived; the first call runs, the other waits.
InitConcurrent ==
  /\ ENFORCEMENT_CASES = CasesTable
  /\ CasesIdle
  /\ AnalyzerIdle
  /\ CrawlerIdle
  /\ event_loop = [running |-> 1,
                   suspended |-> [s \in Scans \ {1} |-> NewFrame]]

NextConcurrent == NextScan \/ Switch

SpecCases == InitCases /\ [][NextCases]_vars

SpecAnalyze == InitAnalyze /\ [][NextAnalyze]_vars

SpecRepeat == InitRepeat /\ [][NextRepeat]_vars

SpecCrawl == InitCrawl /\ [][NextCrawl]_vars


SpecScan == InitScan /\ [][NextScan]_vars
SpecConcurrent == InitConcurrent /\ [][NextConcurrent]_vars
(***************************************************************************)
(* Claims about the case matcher.                                          *)
(***************************************************************************)
FcLimit == IF fc_args.has_limit THEN fc_args.limit ELSE DefaultLimit

\* Number of query tags a case carries, counted without the model's Overlap.
Shared(case) ==
  Cardinality({t \in Range(case.tags) : \E i \in 1..Len(fc_args.tags) :
                                           fc_args.tags[i] = t})

\* r ranks at least as high as c: more shared tags, or as many and a fine
\* at least as large.
RanksNoLower(r, c) ==
  \/ Shared(r) > Shared(c)
  \/ Shared(r) = Shared(c) /\ r.fine_usd >= c.fine_usd

\* C10: find_relevant_cases returns only overlapping cases, in descending
\* order of overlap and then of fine, exactly the first min(limit, number of
\* overlapping cases) of that order, and leaves ENFORCEMENT_CASES as it was;
\* the query [advertising, consent] with the default limit returns the Meta
\* EUR390M and the Amazon EUR746M cases.
C10_CaseMatcher ==
  /\ ENFORCEMENT_CASES = CasesTable
  /\ fc_pc = "returned" =>
       LET overlapping == {c \in Range(CasesTable) : Shared(c) > 0}
           returned == Range(fc_result)
       IN  /\ returned \subseteq overlapping
           /\ Len(fc_result) = Min(FcLimit, Cardinality(overlapping))
           /\ Cardinality(returned) = Len(fc_result)
           /\ \A i, j \in 1..Len(fc_result) :
                i < j => RanksNoLower(fc_result[i], fc_result[j])
           /\ \A r \in returned : \A c \in overlapping \ returned :
                RanksNoLower(r, c)
           /\ (fc_args.tags = <<"advertising", "consent">>
                 /\ ~fc_args.has_limit) =>
                {<<r.company, r.fine>> : r \in returned} =
                  {<<"Meta/Facebook", "EUR390M">>,
                   <<"Amazon Europe", "EUR746M">>}

\* A query that overlaps more cases than the limit admits, with cases of
\* different overlap among them, has returned.
C10_Witness ==
  /\ fc_pc = "returned"
  /\ fc_args.has_limit
  /\ fc_args.limit = 2
  /\ fc_args.tags = <<"advertising", "disclosure", "consent">>
  /\ Len(fc_result) = 2
  /\ Shared(fc_result[1]) = 2
(***************************************************************************)
(* Claims about the gap analyzer.                                          *)
(***************************************************************************)
Returned == ag_pc = "returned"

\* The policy text of the evidence record as it was handed in.
GivenText ==
  IF "privacy_policy_text" \in DOMAIN crawl_data
    THEN crawl_data.privacy_policy_text
    ELSE EmptyText

\* has_policy, as line 24 computes it.
HighConfidence(data) ==
  TextLen(LowerText(Get(data, "privacy_policy_text", EmptyText))) > 200

\* The rule a gap comes from, read off its first tag.
GapsTagged(rep, tag) == {i \in 1..Len(rep.gaps) : rep.gaps[i].tags[1] = tag}

TrackersOf(data) == Get(data, "trackers_found", << >>)

AdTrackerCount(data) ==
  Cardinality({i \in 1..Len(TrackersOf(data)) :
                 /\ "category" \in DOMAIN TrackersOf(data)[i]
                 /\ TrackersOf(data)[i].category = "advertising"})

CriticalCount(rep) ==
  Cardinality({i \in 1..Len(rep.gaps) : rep.gaps[i].severity = "critical"})

RECURSIVE SumFines(_)
SumFines(gaps) ==
  IF Len(gaps) = 0 THEN 0 ELSE Head(gaps).fine_raw + SumFines(Tail(gaps))

\* C1: when the policy text is absent or at most 200 characters long, the
\* report holds none of the policy-gated gaps (analytics disclosure,
\* retention, rights, cross-border transfer, children's data).
C1_NoPolicyGatedGapOnShortText ==
  (Returned /\ TextLen(GivenText) <= 200) =>
    \A tag \in {"analytics", "retention", "rights", "cross_border",
                "children"} :
      GapsTagged(report, tag) = {}

\* C2: with at least one advertising tracker the report holds exactly one
\* advertising gap, and its fine_raw is 68000 times the number of
\* advertising trackers.
C2_AdvertisingGap ==
  (Returned /\ AdTrackerCount(crawl_data) >= 1) =>
    /\ Cardinality(GapsTagged(report, "advertising")) = 1
    /\ \A i \in GapsTagged(report, "advertising") :
         report.gaps[i].fine_raw = AdTrackerCount(crawl_data) * 68000

\* Two advertising trackers and a high-confidence policy.
C2_Witness ==
  /\ Returned
  /\ AdTrackerCount(crawl_data) = 2
  /\ HighConfidence(crawl_data)
  /\ \E i \in 1..Len(report.gaps) : report.gaps[i].fine_raw = 136000

\* Evidence that makes a rule fire whatever the policy says: an advertising
\* tracker, a consent issue, a location or recording signal, a required
\* sensitive field.
HasPolicyFreeEvidence(data) ==
  \/ AdTrackerCount(data) > 0
  \/ Len(Get(Get(data, "consent_banner", << >>), "issues", << >>)) > 0
  \/ \E i \in 1..Len(Get(data, "data_collection_signals", << >>)) :
       data.data_collection_signals[i].category
         \in {"geolocation", "session_recording"}
  \/ Len(ExcessiveFields(Get(data, "forms_detected", << >>))) > 0

C4_ScoreFormula ==
  (Returned /\ Len(report.gaps) > 0) =>
    /\ report.compliance_score =
         Max(5, 100 - 9 * Len(report.gaps) - 8 * CriticalCount(report))
    /\ report.compliance_score >= 5

\* So many gaps that the floor of 5 is what the score is.
C4_Witness ==
  /\ Returned
  /\ Len(report.gaps) >= 8
  /\ 100 - 9 * Len(report.gaps) - 8 * CriticalCount(report) < 5
  /\ report.compliance_score = 5

\* C7: total_risk_exposure is at least 0 and is the sum of fine_raw over
\* the gaps the report lists.
C7_TotalIsSumOfListedGaps ==
  Returned =>
    /\ report.total_risk_exposure >= 0
    /\ report.total_risk_exposure = SumFines(report.gaps)

\* Several gaps listed, and a recording signal that the policy discloses,
\* so that one rule ran without listing a gap.
C7_Witness ==
  /\ Returned
  /\ Len(report.gaps) >= 2
  /\ report.total_risk_exposure > 0
  /\ HighConfidence(crawl_data)
  /\ \E i \in 1..Len(crawl_data.data_collection_signals) :
       crawl_data.data_collection_signals[i].category = "session_recording"
  /\ GapsTagged(report, "recording") = {}

(***************************************************************************)
(* Claims about two calls of the gap analyzer.                             *)
(***************************************************************************)
BothReturned == ag_pc = "returned" /\ prev_report # NoReport

\* C5: between two evidence records of the same policy-confidence status,
\* the one with at least as many gaps and at least as many critical gaps
\* (zero gaps against one or more included) has a score that is not higher.
C5_ScoreMonotone ==
  (/\ BothReturned
   /\ HighConfidence(prev_data) = HighConfidence(crawl_data)
   /\ Len(report.gaps) >= Len(prev_report.gaps)
   /\ CriticalCount(report) >= CriticalCount(prev_report)) =>
    report.compliance_score <= prev_report.compliance_score

\* C6: two calls on identical evidence records, in the same run of the
\* program or in different ones, return identical reports.
C6_Deterministic ==
  (BothReturned /\ prev_data = crawl_data) => prev_report = report

\* The keywords that name a specific retention period.
C16_PeriodKeywords ==
  <<"retention period", "retain your data for", "store your data for",
    "delete after", "retained for", "keep your data for", "days", "months",
    "years">>

C16_VagueKeywords == <<"as long as necessary", "as needed", "reasonable period">>

\* The same evidence with the sentence added to its policy text.
C16_WithSentence(data, sentence) ==
  [data EXCEPT !.privacy_policy_text.frags = Append(@, sentence)]

C16_RetentionFires(rep) == GapsTagged(rep, "retention") # {}

\* C16: with a high-confidence policy text the report holds the retention
\* gap, once and with fine_raw 45000, exactly when the lower-cased text has
\* none of the specific-period keywords; vague language decides its title
\* and nothing else; and the same evidence with "we retain data for 90
\* days" added to the text gets a report without the gap.
C16_RetentionGap ==
  (Returned /\ HighConfidence(crawl_data)) =>
    /\ C16_RetentionFires(report)
         <=> ~AnyInText(C16_PeriodKeywords, LowerText(GivenText))
    /\ Cardinality(GapsTagged(report, "retention")) <= 1
    /\ \A i \in GapsTagged(report, "retention") :
         /\ report.gaps[i].fine_raw = 45000
         /\ report.gaps[i].title
              = IF AnyInText(C16_VagueKeywords, LowerText(GivenText))
                  THEN "Data retention periods vague"
                  ELSE "Data retention periods not specified"
    /\ C16_RetentionFires(report) =>
         ~C16_RetentionFires(
            analyze_gaps(C16_WithSentence(crawl_data,
                                          "we retain data for 90 days"),
                         hash_seed, ENFORCEMENT_CASES))

\* The gap fired on a text with vague language only.
C16_Witness ==
  /\ Returned
  /\ HighConfidence(crawl_data)
  /\ AnyInText(C16_VagueKeywords, LowerText(GivenText))
  /\ \E i \in GapsTagged(report, "retention") :
       report.gaps[i].title = "Data retention periods vague"


C17_Keywords ==
  {"phone", "tel", "mobile", "birth", "dob", "age", "address", "street",
   "zip", "postal", "ssn", "social security", "gender", "sex"}

C17_FormsOf(data) == Get(data, "forms_detected", << >>)

\* The positions (form, field) of the required fields of the record whose
\* name holds a sensitive keyword.
C17_Flagged(data) ==
  {p \in UNION {{<<i, j>> : j \in 1..Len(C17_FormsOf(data)[i].fields)} :
                  i \in 1..Len(C17_FormsOf(data))} :
     /\ C17_FormsOf(data)[p[1]].fields[p[2]].required
     /\ \E x \in C17_Keywords :
          Contains(x, LowerStr(C17_FormsOf(data)[p[1]].fields[p[2]].name))}

C17_NameAt(data, p) == C17_FormsOf(data)[p[1]].fields[p[2]].name

\* The gap fires exactly when a field is flagged, once, with a risk of
\* 12000 for every flagged field.
C17_FiresWithRisk(data, rep) ==
  /\ (GapsTagged(rep, "minimization") # {}) <=> (C17_Flagged(data) # {})
  /\ Cardinality(GapsTagged(rep, "minimization")) <= 1
  /\ \A i \in GapsTagged(rep, "minimization") :
       /\ rep.gaps[i].fine_raw = 12000 * Cardinality(C17_Flagged(data))
       /\ rep.total_risk_exposure >= rep.gaps[i].fine_raw

\* C17: for every evidence record, with or without policy text, the
\* excessive-fields gap fires exactly when a required field has a name with
\* a sensitive keyword, its risk is 12000 times the number of such fields,
\* and its evidence text names every one of them, however many there are.
C17_ExcessiveFieldsGap ==
  Returned =>
    /\ C17_FiresWithRisk(crawl_data, report)
    /\ \A i \in GapsTagged(report, "minimization") :
         \A p \in C17_Flagged(crawl_data) :
           Contains(C17_NameAt(crawl_data, p), report.gaps[i].actual)

\* The same, with the evidence text naming the flagged fields when there
\* are at most five of them.
C17_AtMostFiveNamed ==
  Returned =>
    /\ C17_FiresWithRisk(crawl_data, report)
    /\ \A i \in GapsTagged(report, "minimization") :
         Cardinality(C17_Flagged(crawl_data)) <= 5 =>
           \A p \in C17_Flagged(crawl_data) :
             Contains(C17_NameAt(crawl_data, p), report.gaps[i].actual)

\* The claim of the gap says that the policy could not be retrieved.
C21_SaysNotRetrieved(gap) ==
  /\ Len(gap.claim) >= 9
  /\ SubSeq(gap.claim, 1, 9) = "Could not"

\* C21: when the policy text is not high-confidence, the claim of every
\* advertising, location, session-recording and excessive-fields gap says
\* that the policy could not be retrieved, and says nothing of what the
\* policy states or omits.
C21_NoClaimAboutUnreadPolicy ==
  (Returned /\ ~HighConfidence(crawl_data)) =>
    \A tag \in {"advertising", "location", "recording", "minimization"} :
      \A i \in GapsTagged(report, tag) :
        C21_SaysNotRetrieved(report.gaps[i])

\* The same for the three gaps whose rule tests has_policy: advertising,
\* location, session recording.
C21_ThreeRulesSayNotRetrieved ==
  (Returned /\ ~HighConfidence(crawl_data)) =>
    \A tag \in {"advertising", "location", "recording"} :
      \A i \in GapsTagged(report, tag) :
        C21_SaysNotRetrieved(report.gaps[i])

\* Neither the name of the tracker nor its signature, when it has one, is
\* in the lower-cased policy text.
C22_Undisclosed(t, text) ==
  /\ ~InText(LowerStr(t.name), text)
  /\ \/ "signature" \notin DOMAIN t
     \/ ~InText(LowerStr(t.signature), text)

C22_AdTrackers(data) ==
  SelectSeq(TrackersOf(data),
            LAMBDA t : "category" \in DOMAIN t /\ t.category = "advertising")

\* C22: with a high-confidence policy text the advertising gap is critical
\* when some advertising tracker has neither its name nor its signature in
\* the text and warning when every one has its name or its signature in
\* it, whatever the entry (a name of several words, no signature field);
\* without a high-confidence text the gap is critical.
C22_SeverityByDisclosure ==
  Returned =>
    \A i \in GapsTagged(report, "advertising") :
      report.gaps[i].severity =
        (IF HighConfidence(crawl_data)
           THEN IF \E k \in 1..Len(C22_AdTrackers(crawl_data)) :
                     C22_Undisclosed(C22_AdTrackers(crawl_data)[k],
                                     LowerText(GivenText))
                  THEN "critical" ELSE "warning"
           ELSE "critical")

\* The same for records whose advertising trackers all have a one-word
\* name and a signature.
C22_OneWordNamesWithSignature ==
  (/\ Returned
   /\ \A k \in 1..Len(C22_AdTrackers(crawl_data)) :
        /\ "signature" \in DOMAIN C22_AdTrackers(crawl_data)[k]
        /\ FirstWord(LowerStr(C22_AdTrackers(crawl_data)[k].name))
             = LowerStr(C22_AdTrackers(crawl_data)[k].name))
    => C22_SeverityByDisclosure

C23_IssuesOf(data) ==
  Get(Get(data, "consent_banner", << >>), "issues", << >>)

\* The evidence record with n consent issues in place of its own.
C23_WithIssues(data, n) ==
  [data EXCEPT !.consent_banner =
     [detected |-> TRUE, provider |-> None,
      issues |-> [k \in 1..n |-> "No granular cookie category controls detected"]]]

\* The severity of the consent gap of the record with n issues.
C23_SeverityWith(data, n) ==
  LET rep == analyze_gaps(C23_WithIssues(data, n), hash_seed,
                          ENFORCEMENT_CASES)
  IN  rep.gaps[CHOOSE i \in 1..Len(rep.gaps) : rep.gaps[i].tags[1] = "cookies"]
        .severity

\* The consent gap fires exactly when the banner record holds an issue,
\* once, with the risk 180000.
C23_FiresOnAnyIssue ==
  Returned =>
    /\ (GapsTagged(report, "cookies") # {})
         <=> (Len(C23_IssuesOf(crawl_data)) > 0)
    /\ Cardinality(GapsTagged(report, "cookies")) <= 1
    /\ \A i \in GapsTagged(report, "cookies") :
         report.gaps[i].fine_raw = 180000

\* C23: the consent gap fires exactly when the consent banner record holds
\* an issue, with the risk 180000, and its severity is not the same for
\* every number of issues from one to five.
C23_ConsentSeverityScales ==
  /\ C23_FiresOnAnyIssue
  /\ (Returned /\ Len(C23_IssuesOf(crawl_data)) > 0) =>
       \E n \in 1..5 :
         C23_SeverityWith(crawl_data, n) # C23_SeverityWith(crawl_data, 1)

\* ---- C24 ----
\* The rights no keyword of which occurs in the lowered policy text.
C24_Missing(data) ==
  {r \in 1..Len(RightsKeywords) :
     \A k \in 1..Len(RightsKeywords[r].keywords) :
       ~InText(RightsKeywords[r].keywords[k],
               LowerText(Get(data, "privacy_policy_text", EmptyText)))}

\* C24: with a high-confidence policy text the rights gap fires exactly
\* when at least two of the five rights have no keyword in the text; its
\* risk is 8000 per missing right, its severity warning from three missing
\* rights on and info for exactly two; with none or one missing there is no
\* rights gap.
C24_RightsGapFromTwoMissing ==
  (Returned /\ HighConfidence(crawl_data)) =>
    \A n \in {Cardinality(C24_Missing(crawl_data))} :
      /\ Len(RightsKeywords) = 5
      /\ n < 2 => GapsTagged(report, "rights") = {}
      /\ n >= 2 =>
           /\ Cardinality(GapsTagged(report, "rights")) = 1
           /\ \A i \in GapsTagged(report, "rights") :
                /\ report.gaps[i].fine_raw = 8000 * n
                /\ report.gaps[i].severity =
                     (IF n >= 3 THEN "warning" ELSE "info")

\* Exactly one right is missing and the report has no rights gap.
C24_Witness ==
  /\ Returned
  /\ HighConfidence(crawl_data)
  /\ Cardinality(C24_Missing(crawl_data)) = 1
  /\ GapsTagged(report, "rights") = {}

C24_TwoMissing ==
  /\ Returned /\ HighConfidence(crawl_data)
  /\ Cardinality(C24_Missing(crawl_data)) = 2
  /\ \E i \in GapsTagged(report, "rights") : report.gaps[i].severity = "info"

C24_ThreeMissing ==
  /\ Returned /\ HighConfidence(crawl_data)
  /\ Cardinality(C24_Missing(crawl_data)) = 3
  /\ \E i \in GapsTagged(report, "rights") :
       report.gaps[i].severity = "warning" /\ report.gaps[i].fine_raw = 24000

\* ---- C25 ----
\* The two signal rules: category, first tag of the gap, keywords, severity
\* and risk.
C25_SignalRules ==
  { [category |-> "geolocation", tag |-> "location",
     keywords |-> {"location", "geolocation", "gps", "geographic"},
     severity |-> "critical", risk |-> 2100000],
    [category |-> "session_recording", tag |-> "recording",
     keywords |-> {"session recording", "session replay", "screen recording",
                   "hotjar", "fullstory", "clarity"},
     severity |-> "warning", risk |-> 95000] }

C25_HasSignal(data, category) ==
  \E i \in 1..Len(Get(data, "data_collection_signals", << >>)) :
    Get(data, "data_collection_signals", << >>)[i].category = category

C25_Disclosed(data, keywords) ==
  /\ HighConfidence(data)
  /\ \E kw \in keywords :
       InText(kw, LowerText(Get(data, "privacy_policy_text", EmptyText)))

C25_Suppressed ==
  /\ Returned
  /\ C25_HasSignal(crawl_data, "session_recording")
  /\ C25_Disclosed(crawl_data, {"session recording"})
  /\ GapsTagged(report, "recording") = {}

\* ---- C27 ----
\* The place of a rule in the evaluation order, read off the first tag of
\* its gap; 0 for a gap of no rule.
C27_RuleOrder ==
  <<"advertising", "analytics", "cookies", "location", "recording",
    "retention", "rights", "cross_border", "children", "minimization">>

C27_RuleOf(gap) ==
  IF \E k \in 1..Len(C27_RuleOrder) : C27_RuleOrder[k] = gap.tags[1]
    THEN CHOOSE k \in 1..Len(C27_RuleOrder) : C27_RuleOrder[k] = gap.tags[1]
    ELSE 0

C27_Rank(gap) ==
  IF gap.severity = "critical" THEN 0
  ELSE IF gap.severity = "warning" THEN 1
  ELSE IF gap.severity = "info" THEN 2
  ELSE 3

\* C27: the gaps are listed critical first, then warning, then info; gaps
\* of one severity stand in rule order; every rule has at most one gap, so
\* there are at most ten; and total_gaps is the length of the list and the
\* sum of the three counts.
C27_SortedBySeverityThenRule ==
  Returned =>
    /\ \A i, j \in 1..Len(report.gaps) :
         i < j =>
           /\ C27_Rank(report.gaps[i]) <= C27_Rank(report.gaps[j])
           /\ C27_Rank(report.gaps[i]) = C27_Rank(report.gaps[j]) =>
                C27_RuleOf(report.gaps[i]) < C27_RuleOf(report.gaps[j])
    /\ \A i \in 1..Len(report.gaps) :
         C27_RuleOf(report.gaps[i]) > 0 /\ C27_Rank(report.gaps[i]) < 3
    /\ Len(report.gaps) <= 10
    /\ report.total_gaps = Len(report.gaps)
    /\ report.total_gaps =
         report.critical_count + report.warning_count + report.info_count

\* A report in which a later rule's critical gap stands before an earlier
\* rule's warning, and two gaps of one severity stand in rule order.
C27_Witness ==
  /\ Returned
  /\ \E i, j \in 1..Len(report.gaps) :
       /\ i < j
       /\ C27_Rank(report.gaps[i]) < C27_Rank(report.gaps[j])
       /\ C27_RuleOf(report.gaps[i]) > C27_RuleOf(report.gaps[j])
  /\ \E i, j \in 1..Len(report.gaps) :
       /\ i < j
       /\ C27_Rank(report.gaps[i]) = C27_Rank(report.gaps[j])
  /\ report.critical_count > 0 /\ report.warning_count > 0
  /\ report.info_count > 0

\* The greatest number of gaps the evidence pool yields.
C27_ManyGaps == Returned /\ Len(report.gaps) >= 7

\* ---- C28 ----
C28_Amount(rep, name) ==
  LET rows == {i \in 1..Len(rep.risk_by_regulation) :
                 rep.risk_by_regulation[i].name = name}
  IN  rep.risk_by_regulation[CHOOSE i \in rows : TRUE].amount

\* C28: the amounts for GDPR, CCPA/CPRA and State Laws are not negative
\* and sum to total_risk_exposure; GDPR is the floor of 58% of the total,
\* CCPA/CPRA the floor of 28%, State Laws the remainder.
C28_FixedSplit ==
  Returned =>
    \A total \in {report.total_risk_exposure} :
      /\ Len(report.risk_by_regulation) = 3
      /\ C28_Amount(report, "GDPR") = (58 * total) \div 100
      /\ C28_Amount(report, "CCPA/CPRA") = (28 * total) \div 100
      /\ C28_Amount(report, "State Laws") =
           total - (58 * total) \div 100 - (28 * total) \div 100
      /\ \A i \in 1..3 : report.risk_by_regulation[i].amount >= 0
      /\ C28_Amount(report, "GDPR") + C28_Amount(report, "CCPA/CPRA")
           + C28_Amount(report, "State Laws") = total

\* The part that holds: the three amounts are not negative and sum to the
\* total, CCPA/CPRA is the floor of 28%, and GDPR is the floor of 58% or
\* one less.
C28_SplitSumsToTotal ==
  Returned =>
    \A total \in {report.total_risk_exposure} :
      /\ Len(report.risk_by_regulation) = 3
      /\ C28_Amount(report, "GDPR") \in
           {(58 * total) \div 100, (58 * total) \div 100 - 1}
      /\ C28_Amount(report, "CCPA/CPRA") = (28 * total) \div 100
      /\ \A i \in 1..3 : report.risk_by_regulation[i].amount >= 0
      /\ C28_Amount(report, "GDPR") + C28_Amount(report, "CCPA/CPRA")
           + C28_Amount(report, "State Laws") = total

\* The session-recording gap alone: 95000 is split 55099, 26600, 13301.
C28_OneShort ==
  /\ Returned
  /\ report.total_risk_exposure = 95000
  /\ C28_Amount(report, "GDPR") = 55099
  /\ C28_Amount(report, "State Laws") = 13301

\* ---- C29 ----
\* C29: risk_after_fix is 0 exactly when total_risk_exposure is 0;
\* otherwise it is the greater of 500 and the floor of 0.5% of the total,
\* and it never exceeds the total.
C29_ResidualRisk ==
  Returned =>
    \A total \in {report.total_risk_exposure} :
      /\ total >= 0
      /\ (report.risk_after_fix = 0) <=> (total = 0)
      /\ total > 0 =>
           /\ report.risk_after_fix =
                (IF (5 * total) \div 1000 > 500
                   THEN (5 * total) \div 1000 ELSE 500)
           /\ report.risk_after_fix <= total

\* The smallest total there is, 5000, where the floor of 500 applies; and
\* totals where it does not.
C29_Witness ==
  /\ Returned
  /\ report.total_risk_exposure = 5000
  /\ report.risk_after_fix = 500

C29_AboveFloor ==
  /\ Returned
  /\ report.risk_after_fix > 500
  /\ report.risk_after_fix < report.total_risk_exposure

C29_NoRisk ==
  /\ Returned
  /\ report.total_risk_exposure = 0 /\ report.risk_after_fix = 0
  /\ HighConfidence(crawl_data)
(***************************************************************************)
(* Properties of the crawler.                                              *)
(***************************************************************************)
\* Every detection of detect_trackers on a page, in the order the four
\* checks make them, with nothing skipped and nothing dropped.
C8_PageDetections(html, soup) ==
  Entries(SigHits(LowerStr(html)), "html")
    \o CallEntries(SelectSeq(tracker_functions,
                             LAMBDA info : Contains(info.sig, html)))
    \o SrcEntries(WithSrc(soup, "script"), "script_src")
    \o SrcEntries(WithSrc(soup, "img"), "pixel_img")

C8_DetectionsOn ==
  [p \in PrimaryPages \cup AuxPages \cup {ErrorPage} |->
     C8_PageDetections(Html(p), p)]

\* An entry that reaches the list through the auxiliary page carries the
\* source "signup_page".
C8_FromAux(detections) ==
  [k \in 1..Len(detections) |-> [detections[k] EXCEPT !.source = "signup_page"]]

\* Every detection of the scan so far: the primary page, the
\* cross-reference of its third-party scripts, the auxiliary page.
C8_Detections ==
  (IF served.got_primary
     THEN C8_DetectionsOn[served.primary]
            \o DomainEntries(detect_third_party_scripts(served.primary,
                                                        result.domain))
     ELSE << >>)
    \o (IF served.got_aux THEN C8_FromAux(C8_DetectionsOn[served.aux])
        ELSE << >>)

C8_NamesOf(entries) == {entries[k].name : k \in 1..Len(entries)}

C8_FirstOf(detections, name) ==
  detections[CHOOSE k \in 1..Len(detections) :
               /\ detections[k].name = name
               /\ \A j \in 1..(k - 1) : detections[j].name # name]

C8_KeepsFirst(found, detections) ==
  /\ \A i \in 1..Len(found) :
       \A j \in 1..Len(found) : i # j => found[i].name # found[j].name
  /\ C8_NamesOf(found) = C8_NamesOf(detections)
  /\ \A i \in 1..Len(found) : found[i] = C8_FirstOf(detections, found[i].name)

\* C8: at every point of a scan and after it, trackers_found holds no two
\* entries of the same name, holds every name that the body, the inline
\* calls, the script and pixel sources, the cross-reference or the
\* auxiliary page detected, and the entry of a name is its first detection.
C8_OneEntryPerName == C8_KeepsFirst(result.trackers_found, C8_Detections)

C8_Repeated(detections) ==
  \E i \in 1..Len(detections) :
    \E j \in 1..Len(detections) :
      /\ i < j
      /\ detections[i].name = detections[j].name
      /\ detections[i].signature # detections[j].signature

\* A scan has returned whose primary page has a name under two catalogue
\* keys and a name in the body, in a script source and in the
\* cross-reference, and whose auxiliary page has a name of the primary
\* page and a name of its own.
C8_Witness ==
  /\ cw_pc = "returned"
  /\ served.got_primary
  /\ served.got_aux
  /\ C8_Repeated(C8_DetectionsOn[served.primary])
  /\ \E name \in C8_NamesOf(DomainEntries(result.third_party_scripts)) :
       \E i \in 1..Len(result.trackers_found) :
         /\ result.trackers_found[i].name = name
         /\ result.trackers_found[i].source = "html"
  /\ C8_NamesOf(C8_DetectionsOn[served.aux])
       \cap C8_NamesOf(C8_DetectionsOn[served.primary]) # {}
  /\ \E i \in 1..Len(result.trackers_found) :
       result.trackers_found[i].source = "signup_page"

\* The page is one script tag and the domain of its source is domain.
C9_OnlyScriptOn(page, domain) ==
  /\ Len(page) = 1
  /\ page[1].tag = "script"
  /\ "src" \in DOMAIN page[1]
  /\ DomainOf(page[1].src) = domain

\* C9: for a page that is one script tag with a source on
\* googletagmanager.com, the tracker list is exactly one tracker, named
\* "Google Tag Manager", of category tag_management, found through
\* "script_src".
C9_ScenarioA ==
  (/\ served.got_primary
   /\ ~served.got_aux
   /\ C9_OnlyScriptOn(served.primary, "googletagmanager.com")) =>
    /\ Len(result.trackers_found) = 1
    /\ result.trackers_found[1].name = "Google Tag Manager"
    /\ result.trackers_found[1].category = "tag_management"
    /\ result.trackers_found[1].source = "script_src"

\* The same page: one tracker of that name and category, whichever check
\* found it.
C9_ScenarioA_AnySource ==
  (/\ served.got_primary
   /\ ~served.got_aux
   /\ C9_OnlyScriptOn(served.primary, "googletagmanager.com")) =>
    /\ Len(result.trackers_found) = 1
    /\ result.trackers_found[1].name = "Google Tag Manager"
    /\ result.trackers_found[1].category = "tag_management"
    /\ result.trackers_found[1].source \in {"html", "script_src"}

\* C11: when the first request ends with a connection failure or a
\* timeout, no other request is made and the record returned has no
\* trackers, cookies, forms, signals, consent banner, policy URL or policy
\* text, and one entry in errors.
C11_PrimaryFailureIsFatal ==
  served.failed \in {"connect", "timeout"} =>
    /\ cw_pc = "returned"
    /\ Len(requests) = 1
    /\ result.trackers_found = << >>
    /\ result.cookies_detected = << >>
    /\ result.forms_detected = << >>
    /\ result.data_collection_signals = << >>
    /\ result.consent_banner = << >>
    /\ result.privacy_policy_url = ""
    /\ result.privacy_policy_text = EmptyText
    /\ Len(result.errors) = 1

C11_Witness ==
  /\ cw_pc = "returned"
  /\ served.failed = "timeout"
  /\ result.errors
       = <<"Connection to https://www.shop.example timed out after 20 seconds.">>

\* C12: when the first request is answered with a status outside 200..299,
\* the failure is in errors, no tracker, form, signal or consent evidence
\* is taken from the response and no other request is made.
C12_ErrorStatusIsFatal ==
  (served.got_primary /\ served.status \notin 200..299) =>
    /\ Len(result.errors) > 0
    /\ result.trackers_found = << >>
    /\ result.forms_detected = << >>
    /\ result.data_collection_signals = << >>
    /\ result.consent_banner = << >>
    /\ Len(requests) = 1

\* C13: a request for a policy candidate, for the policy page or for an
\* auxiliary page that ends with a timeout or a connection failure adds an
\* entry to errors, and the evidence gathered so far is kept.
C13_FailuresAreRecorded ==
  [][(ProbeFails \/ PolicyFails \/ AuxFails) =>
       /\ Len(result'.errors) = Len(result.errors) + 1
       /\ result'.trackers_found = result.trackers_found
       /\ result'.forms_detected = result.forms_detected]_vars

\* The same, for the request for the policy page alone.
C13_PolicyFailureIsRecorded ==
  [][PolicyFails =>
       /\ Len(result'.errors) = Len(result.errors) + 1
       /\ result'.trackers_found = result.trackers_found
       /\ result'.forms_detected = result.forms_detected]_vars

\* The site answered the first request with a page and the crawl found no
\* privacy policy.
C14_ReachedWithoutPolicy ==
  /\ cw_pc = "returned"
  /\ served.got_primary
  /\ served.status \in 200..299
  /\ result.privacy_policy_url = ""

\* C14: a scan whose first request was answered with a page and that found
\* no privacy policy is never answered with an error: run_scan goes on to
\* the gap report.
C14_ReportWithoutPolicy ==
  C14_ReachedWithoutPolicy => ag_pc # "raised"

\* At most 26 requests: the first one, 19 policy candidates, the policy
\* page, 5 auxiliary candidates.
C15_Bounded ==
  /\ Len(requests) <= 26
  /\ cw_pc = "probe" => cw_i \in 1..19
  /\ cw_pc = "aux" => cw_i \in 1..5
  /\ cw_pc \in {"idle", "primary", "probe", "policy", "aux", "returned"}

\* The number of requests crawl_website can still make, plus one until it
\* has returned.
C15_Remaining ==
  CASE cw_pc = "idle" -> 27
    [] cw_pc = "primary" -> 26
    [] cw_pc = "probe" -> 26 - cw_i
    [] cw_pc = "policy" -> 6
    [] cw_pc = "aux" -> 6 - cw_i
    [] cw_pc = "returned" -> 0

\* C15: whatever the outcome of a request (an answer of any status and
\* body, a timeout, a connection failure), the step that handles it
\* brings crawl_website closer to its return, none raises, and at most 26
\* requests are made.
C15_ReturnsWithin26 ==
  [][/\ C15_Remaining' < C15_Remaining
     /\ C15_Remaining' >= 0
     /\ C15_Bounded']_vars

\* A crawl that made 26 requests: no link on the page, the 19th candidate
\* confirmed and fetched, no auxiliary page answering.
C15_Witness ==
  /\ cw_pc = "returned"
  /\ Len(requests) = 26
  /\ result.privacy_policy_url # ""
  /\ ~served.got_aux

\* The URLs of the policy candidates of the site crawled, in list order.
C18_Candidates ==
  [i \in 1..19 |-> BaseUrl(result.url) \o extended_paths(result.domain)[i]]

\* The body carries one of the confirming privacy keywords.
C18_Confirming(doc) ==
  \E kw \in {"privacy policy", "privacy notice", "personal data",
             "personal information", "data protection", "we collect"} :
    AnyInText(<<kw>>, LowerText(RawText(doc)))

\* The candidate was answered with a non-error status and a confirming
\* body.
C18_Confirmed(answer) ==
  answer.status \in 1..399 /\ C18_Confirming(answer.doc)

\* What the link scan of the page answered to the first request returned.
C18_LinkFound == find_privacy_policy_link(served.primary, result.url)

\* The candidates requested so far are the first ones of the list, in
\* list order, right after the first request; a candidate is only
\* requested when the link scan found nothing.
C18_InListOrder ==
  /\ cw_pc = "probe" =>
       /\ served.got_primary
       /\ C18_LinkFound = ""
       /\ result.privacy_policy_url = ""
       /\ Len(requests) = cw_i + 1
       /\ \A candidate \in {C18_Candidates} :
            \A i \in 1..cw_i : requests[i + 1] = candidate[i]
  /\ (cw_pc = "policy" /\ Len(requests) = 2) =>
       /\ requests[2] = C18_LinkFound
       /\ requests[2] # ""

\* The step that handles the answer to the candidate at cw_i.
C18_ProbeStep ==
  cw_pc = "probe" =>
    \A candidate \in {C18_Candidates} :
      IF C18_Confirmed(served'.probe)
        THEN /\ cw_pc' = "policy"
             /\ result'.privacy_policy_url = candidate[cw_i]
             /\ requests' = Append(requests, candidate[cw_i])
        ELSE /\ result'.privacy_policy_url = ""
             /\ IF cw_i < 19
                  THEN /\ cw_pc' = "probe"
                       /\ cw_i' = cw_i + 1
                       /\ requests' = Append(requests, candidate[cw_i + 1])
                  ELSE cw_pc' = "aux"

\* Once the policy page or an auxiliary page is being requested, no
\* candidate is requested any more: the request that follows is for an
\* auxiliary page.
C18_NoneAfterwards ==
  (cw_pc \in {"policy", "aux"} /\ Len(requests') > Len(requests)) =>
    /\ cw_pc' = "aux"
    /\ \E spath \in {"/signup", "/register", "/join", "/account/login",
                      "/login"} :
         requests' = Append(requests, BaseUrl(result.url) \o spath)

\* C18: policy candidates are requested only when the link scan of the
\* main page found no policy URL, one at a time and in list order; the
\* first candidate answered with a non-error status and a confirming
\* keyword ends the probing and is the policy URL, no candidate is
\* requested after it, and a candidate answered without a confirming
\* keyword or with an error status is never accepted.
C18_ProbingStopsAtFirstHit ==
  [][C18_ProbeStep /\ C18_NoneAfterwards /\ C18_InListOrder']_vars

\* The 19th candidate is confirmed after the 18 before it were not, among
\* them one answered with status 200 and no confirming keyword.
C18_Witness ==
  /\ cw_pc = "policy"
  /\ Len(requests) = 21
  /\ C18_Confirmed(served.probe)
  /\ served.probe.status = 200
  /\ result.privacy_policy_url = requests[20]
  /\ requests[21] = requests[20]

C19_Paths == <<"/signup", "/register", "/join", "/account/login", "/login">>

\* The URLs of the auxiliary candidates of the site crawled.
C19_Candidates == [i \in 1..5 |-> BaseUrl(result.url) \o C19_Paths[i]]

\* merged is before followed by the entries of extra whose key is new,
\* the first of each key, in order.
C19_FirstWins(merged, before, extra, key) ==
  LET all == before \o extra
      firsts == {k \in 1..Len(all) :
                   \A j \in 1..(k - 1) : all[j][key] # all[k][key]}
  IN  /\ Len(merged) = Cardinality({k \in firsts : TRUE}
                                     \cup (1..Len(before)))
      /\ \A k \in 1..Len(before) : merged[k] = before[k]
      /\ \A k \in (Len(before) + 1)..Len(merged) :
           \E j \in firsts :
             /\ j > Len(before)
             /\ merged[k] = all[j]
             /\ k - Len(before)
                  = Cardinality({i \in firsts : i > Len(before) /\ i <= j})

\* forms is before followed by the forms of extra, each with the path of
\* the page as its source.
C19_FormsTagged(forms, before, extra, spath) ==
  /\ Len(forms) = Len(before) + Len(extra)
  /\ \A k \in 1..Len(before) : forms[k] = before[k]
  /\ \A k \in 1..Len(extra) :
       /\ forms[Len(before) + k].source = spath
       /\ \A name \in DOMAIN extra[k] :
            forms[Len(before) + k][name] = extra[k][name]

\* The step that handles the answer to the auxiliary candidate at cw_i.
C19_AuxStep ==
  cw_pc = "aux" =>
    IF served'.aux_status \in 1..399
      THEN \A found \in {DetectedOn[served'.aux]} :
             /\ cw_pc' = "returned"
             /\ requests' = requests
             /\ C19_FirstWins(result'.trackers_found, result.trackers_found,
                              C8_FromAux(found.trackers), "name")
             /\ C19_FirstWins(result'.data_collection_signals,
                              result.data_collection_signals,
                              found.signals, "signal")
             /\ C19_FormsTagged(result'.forms_detected,
                                result.forms_detected, found.forms,
                                C19_Paths[cw_i])
             /\ \A field \in DOMAIN result \ {"trackers_found",
                                              "data_collection_signals",
                                              "forms_detected"} :
                  result'[field] = result[field]
      ELSE /\ result' = result
           /\ served'.got_aux = served.got_aux
           /\ IF cw_i < 5
                THEN /\ cw_pc' = "aux"
                     /\ cw_i' = cw_i + 1
                     /\ requests' = Append(requests,
                                          C19_Candidates[cw_i + 1])
                ELSE /\ cw_pc' = "returned"
                     /\ requests' = requests

\* The auxiliary candidates are requested after every request for the
\* policy, in list order, and none once a page has been merged.
C19_AfterPolicyInOrder ==
  \A candidate \in {C19_Candidates} :
    /\ cw_pc = "aux" =>
         /\ ~served.got_aux
         /\ Len(requests) > cw_i
         /\ \A i \in 1..cw_i :
              requests[Len(requests) - cw_i + i] = candidate[i]
         /\ \A k \in 1..(Len(requests) - cw_i) :
              \A i \in 1..5 : requests[k] # candidate[i]
         /\ (result.privacy_policy_url = "")
              => \E k \in 1..Len(result.errors) :
                   SubSeq(result.errors[k], 1, 24) = "Could not automatically "
    /\ cw_pc \in {"primary", "probe", "policy"} =>
         /\ ~served.got_aux
         /\ \A k \in 1..Len(requests) :
              \A i \in 1..5 : requests[k] # candidate[i]

C26_Fetched == served.policy.status > 0 /\ served.policy.status < 400

C26_Text == PolicyTextOf(served.policy.doc)

\* The text is short or holds none of the confirming keywords.
C26_LowConfidence ==
  \/ TextLen(C26_Text) <= 300
  \/ \A kw \in {"privacy", "personal data", "we collect", "information"} :
       ~InText(kw, LowerText(C26_Text))

\* C26: a fetched policy text that is short or lacks the confirming
\* keywords is kept in privacy_policy_text, with an explanatory error.
C26_LowConfidenceTextIsKept ==
  (C26_Fetched /\ C26_LowConfidence) =>
    /\ result.privacy_policy_text = Truncate(C26_Text, 15000)
    /\ Len(result.errors) > 0

\* The part that holds: such a text is never left without an error, and
\* it is kept when it is longer than 200 characters.
C26_NeverWithoutError ==
  (C26_Fetched /\ C26_LowConfidence) =>
    /\ Len(result.errors) > 0
    /\ TextLen(C26_Text) > 200 =>
         result.privacy_policy_text = Truncate(C26_Text, 15000)
    /\ TextLen(C26_Text) <= 200 => result.privacy_policy_text = EmptyText

\* A fetched page with a sentence of text, kept nowhere in the record.
C26_ShortTextDropped ==
  /\ cw_pc = "returned"
  /\ C26_Fetched
  /\ TextLen(C26_Text) > 0 /\ TextLen(C26_Text) <= 200
  /\ result.privacy_policy_text = EmptyText

\* ---- C30 ----
\* C30: a returned record has policy text only with a policy URL, and
\* whenever it has no policy text its errors list is not empty.
C30_NoTextHasAnError ==
  cw_pc = "returned" =>
    /\ TextLen(result.privacy_policy_text) > 0 =>
         result.privacy_policy_url # ""
    /\ TextLen(result.privacy_policy_text) = 0 => Len(result.errors) > 0

\* The part that holds: policy text only with a policy URL, and a record
\* without policy text and without an error only when the policy page
\* answered with an error status.
C30_OnlyErrorStatusIsSilent ==
  cw_pc = "returned" =>
    /\ TextLen(result.privacy_policy_text) > 0 =>
         result.privacy_policy_url # ""
    /\ (TextLen(result.privacy_policy_text) = 0 /\ Len(result.errors) = 0) =>
         (result.privacy_policy_url # "" /\ served.policy.status >= 400)

\* The policy page answered 404: no text, no error.
C30_SilentErrorStatus ==
  /\ cw_pc = "returned"
  /\ served.policy.status = 404
  /\ result.privacy_policy_url # ""
  /\ TextLen(result.privacy_policy_text) = 0
  /\ result.errors = << >>
(***************************************************************************)
(* Properties of scans that run side by side.                              *)
(***************************************************************************)
\* The locals of scan s, running or suspended.
C20_FrameOf(s) ==
  IF event_loop.running = s THEN Frame ELSE event_loop.suspended[s]

\* Every detection of a scan, from the pages it was answered with.
C20_DetectionsOf(frame) ==
  (IF frame.served.got_primary
     THEN C8_DetectionsOn[frame.served.primary]
            \o DomainEntries(detect_third_party_scripts(frame.served.primary,
                                                        frame.result.domain))
     ELSE << >>)
    \o (IF frame.served.got_aux
          THEN C8_FromAux(C8_DetectionsOn[frame.served.aux])
          ELSE << >>)

\* A step leaves alone the locals of every scan but the one it runs, and
\* suspending or resuming a scan leaves its locals as they are.
C20_OthersUntouched ==
  \A s \in Scans :
    (event_loop.running # s \/ event_loop'.running # s)
      => C20_FrameOf(s)' = C20_FrameOf(s)

\* What scan s holds is what a scan of its URL holds that runs alone and
\* is answered the same: a fresh record for its own URL, requests to its
\* own site, the trackers of the pages it was served, the evidence record
\* of its own crawl and the report of that record.
C20_AsAlone(s, frame) ==
  /\ frame.cw_pc = "idle" => frame = NewFrame
  /\ frame.cw_pc = "primary" =>
       /\ frame.result = Prepared(ScanUrls[s])
       /\ frame.requests = <<frame.result.url>>
  /\ frame.cw_pc # "idle" =>
       /\ \A fresh \in {Prepared(ScanUrls[s])} :
            /\ frame.result.url = fresh.url
            /\ frame.result.domain = fresh.domain
       /\ \A base \in {BaseUrl(frame.result.url)} :
            \A k \in 1..Len(frame.requests) :
              \/ StartsWith(frame.requests[k], base)
              \/ frame.requests[k] = frame.result.privacy_policy_url
       /\ \A detections \in {C20_DetectionsOf(frame)} :
            C8_KeepsFirst(frame.result.trackers_found, detections)
  /\ frame.ag_pc \in {"call", "returned"} =>
       /\ frame.cw_pc = "returned"
       /\ \A field \in DOMAIN frame.crawl_data \ {"privacy_policy_text"} :
            frame.crawl_data[field] = frame.result[field]
  /\ frame.ag_pc = "returned" =>
       \A alone \in {analyze_gaps(frame.crawl_data, hash_seed, CasesTable)} :
         frame.report = alone
  /\ frame.ag_pc = "raised" =>
       frame.report
         = HTTPException(422, "Could not reach " \o frame.result.url
                                \o ". Error: " \o frame.result.errors[1])

\* Every scan, running or suspended, holds what it would hold alone.
C20_EachAsAlone ==
  \A s \in Scans : \A frame \in {C20_FrameOf(s)} : C20_AsAlone(s, frame)

====
